---- MODULE Spec2Model ----
(***************************************************************************)
(* Hybrid retrieval and ranking engine of the personal wealth manager      *)
(* (RAGService): score fusion, MMR diversification, semantic chunking and  *)
(* the retrieval orchestrator, modelled from the TypeScript source.        *)
(*                                                                         *)
(* Numbers.  Scores are real numbers in the source.  They are kept here as *)
(* exact fixed-point integers in units of 1/ScoreDen (hundredths); the     *)
(* weights alpha and lambda are integers in tenths.  Channel scores are    *)
(* drawn as multiples of one tenth, so every product the code forms is an  *)
(* exact number of hundredths.  MMR scores and Jaccard similarities are    *)
(* exact rationals <<numerator, denominator>> with a positive denominator. *)
(*                                                                         *)
(* Text.  A passage's content is a sequence of lower-case words; a line of *)
(* a document is a record of its structural kind and its token count.      *)
(***************************************************************************)
EXTENDS Integers, Sequences, FiniteSets, TLC

VARIABLES
    \* ---- ranking functions (fuseResults, applyMMR) ----
    vectorResults,   \* input: vector-channel result list
    keywordResults,  \* input: keyword-channel result list
    alpha,           \* input: fusion weight, in tenths
    pool,            \* input: candidate list given to applyMMR
    topK,            \* input: number of results asked for
    lambda,          \* input: MMR weight, in tenths
    rankOut,         \* the list the last ranking call returned
    rankOp,          \* "none" | "fuse" | "mmr" | "bias": the ranking call made
    priorities,      \* input: the priority sections given to applySectionBias
    \* ---- chunkDocument ----
    doc,             \* input: the lines of the preprocessed document text
    chunks,          \* the chunks the call returned
    chunkOp,         \* "none" | "chunked" | "fallback" | "threw"
    metadata,        \* input: the document metadata map the caller supplies
    failure,         \* input: the step of the traversal that throws, or "none"
    build,           \* which copy of createDocumentChunk the build holds
    \* ---- retrieveDocumentsWithExpansion (one call on the service) ----
    store,           \* ids of the passages in the collection, in get() order
    isInitialized,   \* RAGService.isInitialized
    pc,              \* where the call stands
    request,         \* [query, user, topK]
    expandedQuery,   \* what expandQuery returned, and by which path
    expansionReply,  \* the provider's reply to expandQuery
    embedding,       \* "none" | "provider" | "fallback": the query embedding used
    vectorHits,      \* vectorSearch's result
    scan,            \* keywordSearch's loop variables
    keywordHits,     \* keywordSearch's result
    hybridResults,   \* fuseResults' result
    diverseResults,  \* applyMMR's result
    finalResults,    \* the list the call returned
    outcome,         \* "pending" | "ok" | "error"
    stages,          \* the stages run so far, in order
    providerResponded, \* some provider call of this run returned a reply
    storeFault,      \* "none", or the store call that failed
    \* ---- addDocument (calls in flight on the service) ----
    collection,      \* the collection's content: passage id -> [document, metadata]
    upserts,         \* the collection.upsert calls the store has applied, in order
    adds,            \* the addDocument calls made so far, each with its position
    fetched,         \* what the last read of the collection by a retrieval returned
    \* ---- the caller of a retrieval ----
    aborted,         \* the caller's cancellation signal, and the scan when it fired
    \* ---- the service ----
    config,          \* RAGService.config: the keyword scan's page size and ceilings
    \* ---- start-up ----
    initCalls,       \* the initialize() calls in flight: position and outcome of each
    chroma           \* the store's side: the documents collection, createCollection count

rankVars ==
    <<vectorResults, keywordResults, alpha, pool, topK, lambda, rankOut, rankOp,
      priorities>>
chunkVars == <<doc, chunks, chunkOp, metadata, failure, build>>

retrieveVars ==
    <<store, isInitialized, pc, request, expandedQuery, expansionReply, embedding,
      vectorHits, scan,
      keywordHits, hybridResults, diverseResults, finalResults, outcome, stages,
      providerResponded, storeFault>>

ingestVars == <<collection, upserts, adds, fetched>>

callerVars == <<aborted>>

configVars == <<config>>

startVars == <<initCalls, chroma>>

vars == <<rankVars, chunkVars, retrieveVars, ingestVars, callerVars, configVars, startVars>>

----------------------------------------------------------------------------
\* Bounds and fixed-point units

Tenths == 10
ScoreDen == Tenths * Tenths

MaxPool == 3
MaxK == 4

\* config.hybridAlpha = 0.7, config.mmrLambda = 0.4, config.topK = 6
hybridAlpha == 7
mmrLambda == 4

\* Channel scores the inputs are drawn from, in hundredths (0.3, 0.9, 1.2):
\* vector similarities lie in [0,1], keyword scores may exceed 1.
ScoreSamples == {30, 90, 120}
AlphaSamples == {0, hybridAlpha, Tenths}
LambdaSamples == {0, mmrLambda, Tenths}

\* Passage texts the inputs are drawn from ("of" is shorter than 3 characters).
ContentSamples == {<<"ira", "limit">>, <<"ira", "of", "roth">>, <<"roth">>}

NoId == 0
Ids == 1..MaxPool

Min(a, b) == IF a <= b THEN a ELSE b
Range(s) == {s[i] : i \in 1..Len(s)}
IsInjective(s) == \A i, j \in 1..Len(s) : i # j => s[i] # s[j]
SeqsUpTo(S, n) == UNION {[1..m -> S] : m \in 0..n}

\* Exact rationals <<num, den>>, den > 0
RatGT(p, q) == p[1] * q[2] > q[1] * p[2]
RatEQ(p, q) == p[1] * q[2] = q[1] * p[2]
RatMax(p, q) == IF RatGT(q, p) THEN q ELSE p

----------------------------------------------------------------------------
\* RetrievalResult: content, score, source, and of the metadata the chunk id
\* and the section and subsection titles (<<>> when the passage has none).

NoTitle == <<>>
ResultOf(id, c, s, src, sec, sub) ==
    [chunkId |-> id, content |-> c, score |-> s, source |-> src,
     section |-> sec, subsection |-> sub]
Result(id, c, s, src) == ResultOf(id, c, s, src, NoTitle, NoTitle)

\* String.prototype.toLowerCase on the words the model uses
LowerCase(w) ==
    CASE w = "pad" -> "pad"
      [] w = "IRA" -> "ira"
      [] w = "Individual" -> "individual"
      [] w = "Retirement" -> "retirement"
      [] w = "Account" -> "account"
      [] w = "Planning" -> "planning"
      [] w = "Contribution" -> "contribution"
      [] w = "Limits" -> "limits"
      [] w = "Tax" -> "tax"
      [] w = "Deductions" -> "deductions"
      [] w = "Credits" -> "credits"
      [] w = "Health" -> "health"
      [] w = "Savings" -> "savings"
      [] w = "HSA" -> "hsa"
      [] w = "Flexible" -> "flexible"
      [] w = "Spending" -> "spending"
      [] w = "FSA" -> "fsa"
      [] w = "ROTH" -> "roth"
      [] w = "Roth" -> "roth"
      [] w = "SEP" -> "sep"
      [] w = "SEP-IRA" -> "sep-ira"
      [] w = "Simplified" -> "simplified"
      [] w = "Employee" -> "employee"
      [] w = "Pension" -> "pension"
      [] w = "SIMPLE" -> "simple"
      [] w = "TSP" -> "tsp"
      [] w = "Thrift" -> "thrift"
      [] w = "Plan" -> "plan"
      [] w = "AGI" -> "agi"
      [] w = "Adjusted" -> "adjusted"
      [] w = "Gross" -> "gross"
      [] w = "Income" -> "income"
      [] w = "MAGI" -> "magi"
      [] w = "Modified" -> "modified"
      [] w = "NY" -> "ny"
      [] OTHER -> w
LowerWords(text) == [i \in 1..Len(text) |-> LowerCase(text[i])]

\* Array.prototype.sort((a, b) => b.score - a.score): stable, descending.
RECURSIVE InsertByScore(_, _)
InsertByScore(sorted, r) ==
    IF sorted = <<>> THEN <<r>>
    ELSE IF Head(sorted).score >= r.score
         THEN <<Head(sorted)>> \o InsertByScore(Tail(sorted), r)
         ELSE <<r>> \o sorted

RECURSIVE SortByScoreDesc(_)
SortByScoreDesc(s) ==
    IF s = <<>> THEN <<>>
    ELSE InsertByScore(SortByScoreDesc(SubSeq(s, 1, Len(s) - 1)), s[Len(s)])

\* tokenizeForBM25: lower-case, punctuation to spaces, split, keep length > 2.
\* replace(/[^\w\s]/g, ' ') and split(/\s+/) on one word: the parts that the
\* punctuation inside the word separates
SplitPunctuation(w) ==
    CASE w = "catch-up" -> <<"catch", "up">>
      [] w = "sep-ira" -> <<"sep", "ira">>
      [] w = "401(k)" -> <<"401", "k">>
      [] OTHER -> <<w>>

RECURSIVE SplitWords(_)
SplitWords(text) ==
    IF text = <<>> THEN <<>>
    ELSE IF Len(text) = 1 THEN SplitPunctuation(text[1])
    ELSE LET half == Len(text) \div 2
         IN SplitWords(SubSeq(text, 1, half)) \o SplitWords(SubSeq(text, half + 1, Len(text)))

tokenizeForBM25(text) == SelectSeq(SplitWords(LowerWords(text)), LAMBDA w : Len(w) > 2)

\* getResultKey: metadata.chunkId || content.substring(0, 100)
getResultKey(r) ==
    IF r.chunkId # NoId THEN <<"id", r.chunkId>> ELSE <<"prefix", r.content>>

----------------------------------------------------------------------------
\* fuseResults

\* Map<string, RetrievalResult> in insertion order: a sequence of [key, val].
MapHas(m, k) == \E i \in 1..Len(m) : m[i].key = k
MapIndex(m, k) == CHOOSE i \in 1..Len(m) : m[i].key = k
MapSet(m, k, v) ==
    IF MapHas(m, k)
    THEN [m EXCEPT ![MapIndex(m, k)] = [key |-> k, val |-> v]]
    ELSE Append(m, [key |-> k, val |-> v])
MapValues(m) == [i \in 1..Len(m) |-> m[i].val]

\* score * weight, weight in tenths
Weighted(score, w) == (score * w) \div Tenths

\* first loop: resultMap.set(key, {...result, score: score * alpha, source: 'hybrid'})
RECURSIVE AddVectorResults(_, _, _)
AddVectorResults(m, vs, a) ==
    IF vs = <<>> THEN m
    ELSE LET r == Head(vs)
         IN AddVectorResults(
                MapSet(m, getResultKey(r),
                       [r EXCEPT !.score = Weighted(r.score, a), !.source = "hybrid"]),
                Tail(vs), a)

\* second loop with the merge written as an assignment (score = ...) instead of +=
RECURSIVE MergeKeywordResults_overwrite(_, _, _)
MergeKeywordResults_overwrite(m, ks, a) ==
    IF ks = <<>> THEN m
    ELSE LET r == Head(ks)
             k == getResultKey(r)
             kw == Weighted(r.score, Tenths - a)
         IN MergeKeywordResults_overwrite(
                IF MapHas(m, k)
                THEN [m EXCEPT ![MapIndex(m, k)].val.score = kw]
                ELSE MapSet(m, k, [r EXCEPT !.score = kw, !.source = "hybrid"]),
                Tail(ks), a)

\* second loop: existing.score += score * (1 - alpha), else set a new entry
RECURSIVE MergeKeywordResults(_, _, _)
MergeKeywordResults(m, ks, a) ==
    IF ks = <<>> THEN m
    ELSE LET r == Head(ks)
             k == getResultKey(r)
             kw == Weighted(r.score, Tenths - a)
         IN MergeKeywordResults(
                IF MapHas(m, k)
                THEN [m EXCEPT ![MapIndex(m, k)].val.score = @ + kw]
                ELSE MapSet(m, k, [r EXCEPT !.score = kw, !.source = "hybrid"]),
                Tail(ks), a)

\* Array.prototype.sort((a, b) => a.score - b.score): stable, ascending.
RECURSIVE SortByScoreAsc(_)
SortByScoreAsc(s) ==
    IF s = <<>> THEN <<>>
    ELSE LET rest == SortByScoreAsc(SubSeq(s, 1, Len(s) - 1))
             r == s[Len(s)]
             before == SelectSeq(rest, LAMBDA x : x.score <= r.score)
             after == SelectSeq(rest, LAMBDA x : x.score > r.score)
         IN before \o <<r>> \o after

fuseResults_ascending(vs, ks, a) ==
    SortByScoreAsc(MapValues(MergeKeywordResults(AddVectorResults(<<>>, vs, a), ks, a)))

\* a descending sort that puts candidates of equal score in last-seen order
fuseResults_tiesReversed(vs, ks, a) ==
    LET asc == SortByScoreAsc(MapValues(MergeKeywordResults(AddVectorResults(<<>>, vs, a), ks, a)))
    IN [i \in 1..Len(asc) |-> asc[Len(asc) + 1 - i]]

fuseResults(vs, ks, a) ==
    SortByScoreDesc(MapValues(MergeKeywordResults(AddVectorResults(<<>>, vs, a), ks, a)))

----------------------------------------------------------------------------
\* applyMMR

\* calculateContentSimilarity: Jaccard similarity of the two token sets
calculateContentSimilarity(text1, text2) ==
    LET tokens1 == Range(tokenizeForBM25(text1))
        tokens2 == Range(tokenizeForBM25(text2))
        intersection == tokens1 \cap tokens2
        union == tokens1 \cup tokens2
    IN IF Cardinality(union) > 0
       THEN <<Cardinality(intersection), Cardinality(union)>>
       ELSE <<0, 1>>

\* inner loop over selected: maxSimilarity = Math.max(maxSimilarity, similarity)
RECURSIVE MaxSimilarity(_, _, _)
MaxSimilarity(candidate, selected, acc) ==
    IF selected = <<>> THEN acc
    ELSE MaxSimilarity(candidate, Tail(selected),
             RatMax(acc, calculateContentSimilarity(candidate.content, Head(selected).content)))

\* mmrScore = lambda * relevanceScore - (1 - lambda) * maxSimilarity
MMRScore(candidate, selected, lam) ==
    LET sim == MaxSimilarity(candidate, selected, <<0, 1>>)
    IN <<lam * candidate.score * sim[2] - (Tenths - lam) * sim[1] * ScoreDen,
         Tenths * ScoreDen * sim[2]>>

\* for (i ...) if (mmrScore > bestScore) { bestScore = mmrScore; bestIndex = i }
\* bestScore starts at -Infinity (hasBest = FALSE), bestIndex at the first slot.
RECURSIVE ScanBest(_, _, _, _, _, _, _)
ScanBest(i, remaining, selected, lam, bestIndex, hasBest, bestScore) ==
    IF i > Len(remaining) THEN bestIndex
    ELSE LET s == MMRScore(remaining[i], selected, lam)
         IN IF ~hasBest \/ RatGT(s, bestScore)
            THEN ScanBest(i + 1, remaining, selected, lam, i, TRUE, s)
            ELSE ScanBest(i + 1, remaining, selected, lam, bestIndex, hasBest, bestScore)

\* the scan with >= in place of >: the last of the tied candidates wins
RECURSIVE ScanBest_lastOfTies(_, _, _, _, _, _, _)
ScanBest_lastOfTies(i, remaining, selected, lam, bestIndex, hasBest, bestScore) ==
    IF i > Len(remaining) THEN bestIndex
    ELSE LET s == MMRScore(remaining[i], selected, lam)
         IN IF ~hasBest \/ ~RatGT(bestScore, s)
            THEN ScanBest_lastOfTies(i + 1, remaining, selected, lam, i, TRUE, s)
            ELSE ScanBest_lastOfTies(i + 1, remaining, selected, lam, bestIndex, hasBest, bestScore)

BestIndex_lastOfTies(remaining, selected, lam) ==
    ScanBest_lastOfTies(1, remaining, selected, lam, 1, FALSE, <<0, 1>>)

BestIndex(remaining, selected, lam) ==
    ScanBest(1, remaining, selected, lam, 1, FALSE, <<0, 1>>)

RemoveAt(s, i) == SubSeq(s, 1, i - 1) \o SubSeq(s, i + 1, Len(s))

\* while (selected.length < topK && remaining.length > 0) { ... splice, push }
RECURSIVE MMRLoop(_, _, _, _)
MMRLoop(selected, remaining, k, lam) ==
    IF Len(selected) < k /\ Len(remaining) > 0
    THEN LET b == BestIndex(remaining, selected, lam)
         IN MMRLoop(Append(selected, remaining[b]), RemoveAt(remaining, b), k, lam)
    ELSE selected

\* the seed: remaining.shift() is pushed whenever remaining is non-empty
MMRSeeded(results, k, lam) ==
    IF Len(results) > 0
    THEN MMRLoop(<<Head(results)>>, Tail(results), k, lam)
    ELSE <<>>

\* applyMMR without its early return: remaining.shift() of an empty list is
\* undefined, and selected.push(undefined) makes a list of one entry
applyMMR_noGuard(results, k, lam) ==
    IF results = <<>> THEN <<Result(NoId, <<>>, 0, "undefined")>>
    ELSE MMRSeeded(results, k, lam)

applyMMR_strictGuard(results, k, lam) ==
    IF Len(results) < k THEN results ELSE MMRSeeded(results, k, lam)

applyMMR(results, k, lam) ==
    IF Len(results) <= k THEN results ELSE MMRSeeded(results, k, lam)

----------------------------------------------------------------------------
\* Specifications of the ranking functions: the inputs are drawn in Init,
\* one action applies the function.

\* A channel result list: distinct chunk ids, any scores, in any order.
ChannelLists(src, maxLen) ==
    {[i \in 1..Len(ids) |-> Result(ids[i], <<"ira">>, sc[i], src)] :
        <<ids, sc>> \in {p \in SeqsUpTo(Ids, maxLen) \X SeqsUpTo(ScoreSamples, maxLen) :
                            Len(p[1]) = Len(p[2]) /\ IsInjective(p[1])}}

\* A candidate pool: ids are the input positions (applyMMR never reads them).
Pools(maxLen) ==
    {[i \in 1..Len(sc) |-> Result(i, cs[i], sc[i], "hybrid")] :
        <<sc, cs>> \in {p \in SeqsUpTo(ScoreSamples, maxLen) \X SeqsUpTo(ContentSamples, maxLen) :
                            Len(p[1]) = Len(p[2])}}

RankIdle ==
    /\ vectorResults = <<>> /\ keywordResults = <<>> /\ alpha = 0
    /\ pool = <<>> /\ topK = 0 /\ lambda = 0
    /\ rankOut = <<>> /\ rankOp = "none" /\ priorities = <<>>

\* a metadata map is a function from its keys to their values
NoMetadata == [key \in {} |-> FALSE]
\* the two copies of the service in the repository
CurrentCopy == "part_005"
EarlierCopy == "ragService.ts"

ChunkIdle ==
    /\ doc = <<>> /\ chunks = <<>> /\ chunkOp = "none"
    /\ metadata = NoMetadata /\ failure = "none" /\ build = CurrentCopy

\* a collection without passages, and the value of fetched before any read
EmptyCollection == [id \in {} |-> FALSE]
NotFetched == [read |-> FALSE, passages |-> EmptyCollection]

IngestIdle ==
    /\ collection = EmptyCollection /\ upserts = <<>> /\ adds = <<>>
    /\ fetched = NotFetched

NoUser == [present |-> FALSE]
NoRequest == [query |-> <<>>, user |-> NoUser, topK |-> 0]
NoExpansion ==
    [original |-> <<>>, expanded |-> <<>>, expansionTerms |-> <<>>,
     userContextTerms |-> <<>>, prioritySections |-> <<>>, path |-> "none"]
NoReply ==
    [kind |-> "none", parsed |-> {}, expanded |-> <<>>, terms |-> <<>>,
     context |-> <<>>, sections |-> <<>>]
NoScan ==
    [page |-> 0, totalDocsProcessed |-> 0, currentOffset |-> 0,
     totalDocsEstimate |-> 0, scoredResults |-> <<>>]

CallIdle ==
    /\ pc = "idle" /\ request = NoRequest /\ expandedQuery = NoExpansion
    /\ expansionReply = NoReply
    /\ embedding = "none" /\ vectorHits = <<>> /\ scan = NoScan
    /\ keywordHits = <<>> /\ hybridResults = <<>> /\ diverseResults = <<>>
    /\ finalResults = <<>> /\ outcome = "pending" /\ stages = <<>>
    /\ providerResponded = FALSE /\ storeFault = "none"

RetrieveIdle == store = <<>> /\ isInitialized = FALSE /\ CallIdle

\* the caller has not fired its cancellation signal
NoAbort == [fired |-> FALSE, scan |-> NoScan]
CallerIdle == aborted = NoAbort

\* config.keywordBatchSize, maxKeywordPages, maxScanLimit (100, 20 and 2000
\* in the source), scaled to the collections of the model
keywordBatchSize == 2
maxKeywordPages == 3
maxScanLimit == 4

DefaultConfig ==
    [keywordBatchSize |-> keywordBatchSize,
     maxKeywordPages |-> maxKeywordPages,
     maxScanLimit |-> maxScanLimit]

\* the configuration the service is constructed with
DefaultConfigured == config = DefaultConfig

\* initialize() callers, and the calls each of them may make
MaxCallers == 2
MaxInitAttempts == 2
Callers == 1..MaxCallers

\* no initialize() call has been made; the store has no documents collection
NotCalled == [pc |-> "idle", attempts |-> 0, heartbeat |-> FALSE, ensured |-> FALSE,
              error |-> "none"]
NoCollections == [documents |-> FALSE, created |-> 0]
StartIdle == initCalls = [c \in Callers |-> NotCalled] /\ chroma = NoCollections

InitFuse ==
    /\ ChunkIdle /\ RetrieveIdle /\ IngestIdle /\ CallerIdle /\ DefaultConfigured /\ StartIdle
    /\ vectorResults \in ChannelLists("vector", MaxPool)
    /\ keywordResults \in ChannelLists("keyword", MaxPool - 1)
    /\ alpha \in AlphaSamples
    /\ pool = <<>> /\ topK = 0 /\ lambda = 0
    /\ rankOut = <<>> /\ rankOp = "none" /\ priorities = <<>>

Fuse ==
    /\ rankOp = "none"
    /\ rankOut' = fuseResults(vectorResults, keywordResults, alpha)
    /\ rankOp' = "fuse"
    /\ UNCHANGED <<vectorResults, keywordResults, alpha, pool, topK, lambda, priorities>>
    /\ UNCHANGED <<chunkVars, retrieveVars, ingestVars, callerVars, configVars, startVars>>

NextFuse == Fuse
SpecFuse == InitFuse /\ [][NextFuse]_vars

InitMMR ==
    /\ ChunkIdle /\ RetrieveIdle /\ IngestIdle /\ CallerIdle /\ DefaultConfigured /\ StartIdle
    /\ pool \in Pools(MaxPool)
    /\ topK \in 0..MaxK
    /\ lambda \in LambdaSamples
    /\ vectorResults = <<>> /\ keywordResults = <<>> /\ alpha = 0
    /\ rankOut = <<>> /\ rankOp = "none" /\ priorities = <<>>

MMR ==
    /\ rankOp = "none"
    /\ rankOut' = applyMMR(pool, topK, lambda)
    /\ rankOp' = "mmr"
    /\ UNCHANGED <<vectorResults, keywordResults, alpha, pool, topK, lambda, priorities>>
    /\ UNCHANGED <<chunkVars, retrieveVars, ingestVars, callerVars, configVars, startVars>>

NextMMR == MMR
SpecMMR == InitMMR /\ [][NextMMR]_vars

----------------------------------------------------------------------------
\* Claims about the ranking functions

\* C1: for every pool with pairwise-distinct passage ids, every k >= 0 and
\* every lambda, applyMMR returns exactly min(k, |pool|) candidates, each
\* drawn from the pool, no passage id twice.
C1_MMRExactCount ==
    rankOp = "mmr" =>
        /\ Len(rankOut) = Min(topK, Len(pool))
        /\ Range(rankOut) \subseteq Range(pool)
        /\ \A i, j \in 1..Len(rankOut) : i # j => rankOut[i].chunkId # rankOut[j].chunkId

\* C8: whenever |pool| <= k, applyMMR returns the pool unchanged (same
\* candidates, same order, same scores), for every lambda.
C8_MMRNoOp ==
    (rankOp = "mmr" /\ Len(pool) <= topK) => rankOut = pool

\* C8 witness: a pool of exactly k candidates that is not in MMR order was
\* passed through applyMMR.
C8_Witness ==
    /\ rankOp = "mmr" /\ Len(pool) = topK /\ topK >= 2
    /\ MMRSeeded(pool, topK, lambda) # pool

IsSortedDesc(list) ==
    \A i \in 1..(Len(list) - 1) : list[i].score >= list[i + 1].score

\* token-set Jaccard similarity of two texts, as a fraction
Jaccard(text1, text2) ==
    LET tokens1 == Range(tokenizeForBM25(text1))
        tokens2 == Range(tokenizeForBM25(text2))
    IN IF tokens1 \cup tokens2 = {} THEN <<0, 1>>
       ELSE <<Cardinality(tokens1 \cap tokens2), Cardinality(tokens1 \cup tokens2)>>

\* the largest similarity of a candidate to the picks made so far
MaxJaccard(c, picked) ==
    LET sims == {Jaccard(c.content, x.content) : x \in picked}
    IN CHOOSE s \in sims : \A t \in sims : ~RatGT(t, s)

\* lambda * score - (1 - lambda) * maximum similarity, as a fraction
Objective(c, picked) ==
    LET sim == MaxJaccard(c, picked)
    IN <<lambda * c.score * sim[2] - (Tenths - lambda) * sim[1] * ScoreDen,
         Tenths * ScoreDen * sim[2]>>

\* the picks before position j, and the candidates not picked before j
PickedBefore(j) == {rankOut[i] : i \in 1..(j - 1)}
LeftBefore(j) == {i \in 1..Len(pool) : pool[i] \notin PickedBefore(j)}

\* C28: for every score-sorted pool with more than k >= 1 candidates, the
\* first pick of applyMMR is the highest-scored candidate, and each later
\* pick is a candidate not yet selected that maximises
\* lambda * score - (1 - lambda) * (largest Jaccard similarity to the picks
\* made so far), the earliest in pool order among those of equal value.
C28_MMRGreedyPicks ==
    (rankOp = "mmr" /\ IsSortedDesc(pool) /\ Len(pool) > topK /\ topK >= 1) =>
        /\ rankOut[1] = pool[1]
        /\ \A c \in Range(pool) : rankOut[1].score >= c.score
        /\ \A j \in 2..Len(rankOut) :
              \E p \in LeftBefore(j) :
                 /\ rankOut[j] = pool[p]
                 /\ \A q \in LeftBefore(j) :
                       /\ ~RatGT(Objective(pool[q], PickedBefore(j)),
                                 Objective(pool[p], PickedBefore(j)))
                       /\ RatEQ(Objective(pool[q], PickedBefore(j)),
                                Objective(pool[p], PickedBefore(j))) => p <= q

\* C28 witness: a sorted pool whose second pick is the third candidate,
\* of a lower score than the second.
C28_Witness ==
    /\ rankOp = "mmr" /\ IsSortedDesc(pool) /\ Len(pool) > topK /\ topK >= 2
    /\ rankOut[2] = pool[3]
    /\ pool[2].score > pool[3].score

\* What a caller can observe of a passage in a result list: id, text, score.
Observed(list) ==
    [i \in 1..Len(list) |->
        <<list[i].chunkId, list[i].content, list[i].score>>]


\* C2 (as claimed): for every vector result list A with distinct ids, in
\* whatever order its scores are, fuseResults(A, [], 1.0) returns the same
\* passages in the same order with the same scores as A.
C2_FuseIdentityAnyOrder ==
    (rankOp = "fuse" /\ keywordResults = <<>> /\ alpha = Tenths)
        => Observed(rankOut) = Observed(vectorResults)

\* C2 (amended): for every vector result list A with distinct ids that is
\* sorted by non-increasing score, fuseResults(A, [], 1.0) returns the same
\* passages in the same order with the same scores as A.
C2_FuseIdentitySorted ==
    (rankOp = "fuse" /\ keywordResults = <<>> /\ alpha = Tenths
        /\ IsSortedDesc(vectorResults))
        => Observed(rankOut) = Observed(vectorResults)

\* C2 witness: a sorted list with a tie and a strict drop was fused with the
\* empty keyword list at alpha = 1.0.
C2_Witness ==
    /\ rankOp = "fuse" /\ keywordResults = <<>> /\ alpha = Tenths
    /\ Len(vectorResults) = 3 /\ IsSortedDesc(vectorResults)
    /\ vectorResults[1].score = vectorResults[2].score
    /\ vectorResults[2].score > vectorResults[3].score
    /\ vectorResults[1].chunkId > vectorResults[2].chunkId

\* The score a passage has in a channel list, 0 when it is absent from it.
ChannelScore(list, id) ==
    IF \E i \in 1..Len(list) : list[i].chunkId = id
    THEN list[CHOOSE i \in 1..Len(list) : list[i].chunkId = id].score
    ELSE 0

ChannelIds(list) == {list[i].chunkId : i \in 1..Len(list)}

\* the rank at which a passage is first seen by fuseResults: its position in
\* the vector list, or after the vector list its position in the keyword list
Position(list, id) == CHOOSE i \in 1..Len(list) : list[i].chunkId = id
FirstSeen(id) ==
    IF id \in ChannelIds(vectorResults) THEN Position(vectorResults, id)
    ELSE Len(vectorResults) + Position(keywordResults, id)

\* C24: the list fuseResults returns is sorted by non-increasing fused
\* score, and candidates of equal fused score appear in first-seen order:
\* vector-list order first, then the keyword-only candidates in keyword-list
\* order.
C24_FuseSortedStable ==
    rankOp = "fuse" =>
        /\ IsSortedDesc(rankOut)
        /\ \A i, j \in 1..Len(rankOut) :
              (i < j /\ rankOut[i].score = rankOut[j].score)
                  => FirstSeen(rankOut[i].chunkId) < FirstSeen(rankOut[j].chunkId)

\* C24 witness: two vector candidates of equal fused score came out in their
\* vector-list order, which is not their id order, below a keyword-only
\* candidate of higher fused score.
C24_Witness ==
    /\ rankOp = "fuse" /\ Len(rankOut) = 3
    /\ rankOut[1].chunkId \notin ChannelIds(vectorResults)
    /\ rankOut[1].score > rankOut[2].score
    /\ rankOut[2].score = rankOut[3].score
    /\ rankOut[2].chunkId > rankOut[3].chunkId
    /\ vectorResults[1].chunkId = rankOut[2].chunkId

----------------------------------------------------------------------------
\* chunkDocument
\*
\* A line is [n, kind, tok]: its position in the preprocessed text, its
\* structural kind and encoder.encode(line).length.  A string of several
\* lines is the sequence of its lines; the empty string is <<>>.  A newline
\* between two lines encodes to one token (the code's own "+1 for newline").

chunkSize == 350
chunkOverlap == 60

MaxLines == 4

\* token counts the lines are drawn from: short, long, and over the budget
TokSamples == {50, 300, 400}
LineKinds == {"text", "table", "bullet", "numbered", "header"}

IsBlank(l) == l.kind = "blank"
\* line.includes('|') && line.split('|').length >= 3
IsTableRow(l) == l.kind = "table"
\* line.includes('|')
HasPipe(l) == l.kind = "table"
\* /^[\s]*\d+\.?\s+/
IsNumbered(l) == l.kind = "numbered"
\* /^[\s]*[-*•]\s+/
IsBullet(l) == l.kind = "bullet"
\* /^#+\s+/
IsHeader(l) == l.kind = "header"
\* /[=+\-*/]\s*\$?\d+/ or /\$\d+[,.]?\d*/
IsFormula(l) == l.kind = "formula"
\* /\d/: a numbered item starts with digits, a formula line holds an amount
HasDigit(l) == l.kind \in {"numbered", "formula"}
\* the '|' characters of a line; a table row reads "| a | b |"
PipesPerRow == 3
Pipes(l) == IF l.kind = "table" THEN PipesPerRow ELSE 0

RECURSIVE SumTok(_)
SumTok(ls) == IF ls = <<>> THEN 0 ELSE Head(ls).tok + SumTok(Tail(ls))

\* encoder.encode(text).length of the lines joined by '\n'
Encode(ls) == IF ls = <<>> THEN 0 ELSE SumTok(ls) + (Len(ls) - 1)

\* s + (s ? '\n' : '') + more
JoinLines(s, more) == s \o more

\* String.prototype.trim on a multi-line string: leading and trailing blank
\* lines go (the lines themselves are already trimmed).
RECURSIVE TrimLeft(_)
TrimLeft(ls) ==
    IF ls # <<>> /\ IsBlank(Head(ls)) THEN TrimLeft(Tail(ls)) ELSE ls
RECURSIVE TrimRight(_)
TrimRight(ls) ==
    IF ls # <<>> /\ IsBlank(ls[Len(ls)]) THEN TrimRight(SubSeq(ls, 1, Len(ls) - 1)) ELSE ls
Trim(ls) == TrimLeft(TrimRight(ls))

\* isSemanticBoundary: table row, formula, list item or header
isSemanticBoundary(l) ==
    IsTableRow(l) \/ IsFormula(l) \/ IsBullet(l) \/ IsNumbered(l) \/ IsHeader(l)

\* extractSemanticUnit, table branch: the index of the unit's last line
RECURSIVE TableEnd(_, _, _)
TableEnd(lines, i, endIndex) ==
    IF i > Len(lines) THEN endIndex
    ELSE IF IsTableRow(lines[i]) THEN TableEnd(lines, i + 1, i)
    ELSE IF IsBlank(lines[i])
         THEN IF i + 1 <= Len(lines) /\ HasPipe(lines[i + 1])
              THEN TableEnd(lines, i + 1, i)
              ELSE endIndex
    ELSE endIndex

\* extractSemanticUnit, list branches: items of the same list and blank lines
RECURSIVE ListEnd(_, _, _, _)
ListEnd(lines, i, endIndex, numbered) ==
    IF i > Len(lines) THEN endIndex
    ELSE IF (IF numbered THEN IsNumbered(lines[i]) ELSE IsBullet(lines[i])) \/ IsBlank(lines[i])
         THEN ListEnd(lines, i + 1, i, numbered)
    ELSE endIndex

\* extractSemanticUnit(lines, startIndex): {content, linesProcessed}
extractSemanticUnit(lines, startIndex) ==
    LET startLine == lines[startIndex]
        endIndex ==
            IF IsTableRow(startLine) THEN TableEnd(lines, startIndex + 1, startIndex)
            ELSE IF IsNumbered(startLine) THEN ListEnd(lines, startIndex + 1, startIndex, TRUE)
            ELSE IF IsBullet(startLine) THEN ListEnd(lines, startIndex + 1, startIndex, FALSE)
            ELSE startIndex
    IN [content |-> SubSeq(lines, startIndex, endIndex),
        linesProcessed |-> endIndex - startIndex + 1]

\* extractOverlapContent: whole lines from the end of the chunk while their
\* token counts (newlines not counted) stay within overlapTokens
RECURSIVE OverlapScan(_, _, _, _, _)
OverlapScan(ls, i, overlapTokens, overlapContent, tokenCount) ==
    IF i < 1 THEN overlapContent
    ELSE IF tokenCount + ls[i].tok <= overlapTokens
         THEN OverlapScan(ls, i - 1, overlapTokens,
                  \* line + (overlapContent ? '\n' + overlapContent : '')
                  IF overlapContent = <<>> /\ IsBlank(ls[i]) THEN <<>>
                  ELSE <<ls[i]>> \o overlapContent,
                  tokenCount + ls[i].tok)
    ELSE overlapContent

extractOverlapContent(chunk, overlapTokens) ==
    OverlapScan(chunk, Len(chunk), overlapTokens, <<>>, 0)

RECURSIVE SumPipes(_)
SumPipes(ls) == IF ls = <<>> THEN 0 ELSE Pipes(Head(ls)) + SumPipes(Tail(ls))

\* content.includes('|') && content.split('|').length >= 6
hasTable(content) == SumPipes(content) > 0 /\ SumPipes(content) + 1 >= 6
\* the two formula patterns tested on the content
hasFormula(content) == \E i \in 1..Len(content) : IsFormula(content[i])
\* /\d/.test(content)
hasNumbers(content) == \E i \in 1..Len(content) : HasDigit(content[i])

FlagKeys == {"hasTable", "hasFormula", "hasNumbers"}

\* the object literal { ...baseMetadata, k: v, ... } (baseMetadata spread
\* first, the current copy) or { k: v, ..., ...baseMetadata } (spread last,
\* the earlier copy): in a literal the later entry of a key wins
SpreadFlags(own, baseMetadata, copy) ==
    [key \in FlagKeys |->
        IF copy = EarlierCopy /\ key \in DOMAIN baseMetadata
        THEN baseMetadata[key] ELSE own[key]]

\* createDocumentChunk; carried is the number of leading lines of the content
\* that came from the previous chunk as overlap (kept for the coverage claims)
createDocumentChunk(content, chunkIndex, section, carried, baseMetadata, copy) ==
    LET own == [key \in FlagKeys |->
                   IF key = "hasTable" THEN hasTable(content)
                   ELSE IF key = "hasFormula" THEN hasFormula(content)
                   ELSE hasNumbers(content)]
        flags == SpreadFlags(own, baseMetadata, copy)
    IN [content |-> content,
        chunkIndex |-> chunkIndex,
        tokenCount |-> Encode(content),
        section |-> section,
        carried |-> carried,
        hasTable |-> flags["hasTable"],
        hasFormula |-> flags["hasFormula"],
        hasNumbers |-> flags["hasNumbers"]]

\* the chunk closed from currentChunk.trim()
CloseChunk(st) ==
    LET trimmedAway == Len(st.currentChunk) - Len(TrimLeft(st.currentChunk))
        carried == IF st.carried > trimmedAway THEN st.carried - trimmedAway ELSE 0
    IN Append(st.chunks,
              createDocumentChunk(Trim(st.currentChunk), Len(st.chunks), st.currentSection,
                                  carried, st.baseMetadata, st.copy))

\* One iteration of the for loop over lines, at index i; returns the loop
\* state and the next index.
LoopBody(lines, i, st) ==
    LET line == lines[i]
        lineTokens == line.tok
        sec == IF IsHeader(line) THEN line.n ELSE st.currentSection
        st0 == [st EXCEPT !.currentSection = sec]
        potentialTokenCount == st.currentTokenCount + lineTokens + 1
        \* first branch: close the chunk, or add the line
        st1 ==
            IF potentialTokenCount > chunkSize /\ st.currentChunk # <<>>
            THEN LET overlapContent == extractOverlapContent(st.currentChunk, chunkOverlap)
                     next == JoinLines(overlapContent, <<line>>)
                 IN [st0 EXCEPT !.chunks = CloseChunk(st0),
                                !.currentChunk = next,
                                !.carried = Len(overlapContent),
                                !.currentTokenCount = Encode(next)]
            ELSE [st0 EXCEPT !.currentChunk = JoinLines(st.currentChunk, <<line>>),
                             !.currentTokenCount = potentialTokenCount]
        semanticUnit == extractSemanticUnit(lines, i)
        unitTokens == Encode(semanticUnit.content)
        \* second branch: the unit does not fit, close and restart with it
        st2 ==
            IF st1.currentTokenCount + unitTokens > chunkSize /\ st1.currentChunk # <<>>
            THEN LET overlapContent == extractOverlapContent(st1.currentChunk, chunkOverlap)
                     next == JoinLines(overlapContent, semanticUnit.content)
                 IN [st1 EXCEPT !.chunks = CloseChunk(st1),
                                !.currentChunk = next,
                                !.carried = Len(overlapContent),
                                !.currentTokenCount = Encode(next)]
            ELSE st1
    IN IF IsBlank(line) THEN [st |-> st, next |-> i + 1]
       ELSE IF isSemanticBoundary(line)
            THEN [st |-> st2, next |-> i + semanticUnit.linesProcessed]
       ELSE [st |-> st1, next |-> i + 1]

RECURSIVE ChunkLoop(_, _, _)
ChunkLoop(lines, i, st) ==
    IF i > Len(lines)
    THEN IF Trim(st.currentChunk) # <<>> THEN CloseChunk(st) ELSE st.chunks
    ELSE LET r == LoopBody(lines, i, st)
         IN ChunkLoop(lines, r.next, r.st)

\* the try block of chunkDocument
SemanticChunks(lines, baseMetadata, copy) ==
    ChunkLoop(lines, 1,
        [chunks |-> <<>>, currentChunk |-> <<>>, carried |-> 0,
         currentTokenCount |-> 0, currentSection |-> 0,
         baseMetadata |-> baseMetadata, copy |-> copy])

\* fallbackChunking
\*
\* content.split(/\s+/): a line of tok tokens is tok / WordTok words of
\* WordTok tokens each (the blank before a word encodes with the word); the
\* first word of a line holds the line's digits.  A word is [n, k, tok]: the
\* k-th word of line n.
WordTok == CHOOSE t \in TokSamples : \A u \in TokSamples : t <= u

RECURSIVE WordsOf(_)
WordsOf(lines) ==
    IF lines = <<>> THEN <<>>
    ELSE [k \in 1..(Head(lines).tok \div WordTok) |->
             [n |-> Head(lines).n, k |-> k, tok |-> WordTok,
              digit |-> (k = 1 /\ HasDigit(Head(lines)))]]
         \o WordsOf(Tail(lines))

\* the two chunks.push({...}) of fallbackChunking
FallbackChunk(currentChunk, chunkIndex, baseMetadata, copy) ==
    LET own == [key \in FlagKeys |->
                   IF key = "hasNumbers"
                   THEN \E i \in 1..Len(currentChunk) : currentChunk[i].digit
                   ELSE FALSE]
        flags == SpreadFlags(own, baseMetadata, copy)
    IN [content |-> currentChunk,
        chunkIndex |-> chunkIndex,
        tokenCount |-> SumTok(currentChunk),
        section |-> 0,
        carried |-> 0,
        hasTable |-> flags["hasTable"],
        hasFormula |-> flags["hasFormula"],
        hasNumbers |-> flags["hasNumbers"]]

RECURSIVE FallbackLoop(_, _, _, _, _, _)
FallbackLoop(words, i, currentChunk, out, baseMetadata, copy) ==
    IF i > Len(words)
    THEN IF currentChunk # <<>>
         THEN Append(out, FallbackChunk(currentChunk, Len(out), baseMetadata, copy))
         ELSE out
    ELSE LET testChunk == Append(currentChunk, words[i])
         IN IF SumTok(testChunk) > chunkSize /\ currentChunk # <<>>
            THEN FallbackLoop(words, i + 1, <<words[i]>>,
                     Append(out, FallbackChunk(currentChunk, Len(out), baseMetadata, copy)),
                     baseMetadata, copy)
            ELSE FallbackLoop(words, i + 1, testChunk, out, baseMetadata, copy)

fallbackChunking(lines, baseMetadata, copy) ==
    FallbackLoop(WordsOf(lines), 1, <<>>, <<>>, baseMetadata, copy)

\* chunkDocument: try { get_encoding; traversal } catch { return
\* fallbackChunking(...) }.  thrown is the step of the try block that throws:
\* "none", "traversal" (a step that does not involve the tokenizer) or
\* "tokenizer" (get_encoding or encoder.encode); tokenizerAgain tells whether
\* the tokenizer throws again when fallbackChunking calls it, outside any try.
chunkDocument(lines, baseMetadata, copy, thrown, tokenizerAgain) ==
    IF thrown = "none"
    THEN [outcome |-> "chunked", chunks |-> SemanticChunks(lines, baseMetadata, copy)]
    ELSE IF thrown = "tokenizer" /\ tokenizerAgain
    THEN [outcome |-> "threw", chunks |-> <<>>]
    ELSE [outcome |-> "fallback", chunks |-> fallbackChunking(lines, baseMetadata, copy)]

\* Documents after preprocessDocumentContent: the text is trimmed, so its
\* first and last lines are not blank.
Line(n, kind, tok) == [n |-> n, kind |-> kind, tok |-> tok]
LineShapes == (LineKinds \X TokSamples) \cup {<<"blank", 0>>}
Docs(maxLines) ==
    UNION {{d \in {[n \in 1..m |-> Line(n, f[n][1], f[n][2])] : f \in [1..m -> LineShapes]} :
                ~IsBlank(d[1]) /\ ~IsBlank(d[m])} : m \in 1..maxLines}

InitChunk ==
    /\ RankIdle /\ RetrieveIdle /\ IngestIdle /\ CallerIdle /\ DefaultConfigured /\ StartIdle
    /\ doc \in Docs(MaxLines)
    /\ chunks = <<>> /\ chunkOp = "none"
    /\ metadata = NoMetadata /\ failure = "none" /\ build = CurrentCopy

\* chunkDocument(content, documentId, metadata), with its catch and fallback
Chunk ==
    /\ chunkOp = "none"
    /\ \E tokenizerAgain \in BOOLEAN :
          LET r == chunkDocument(doc, metadata, build, failure, tokenizerAgain)
          IN chunks' = r.chunks /\ chunkOp' = r.outcome
    /\ UNCHANGED <<doc, metadata, failure, build>>
    /\ UNCHANGED <<rankVars, retrieveVars, ingestVars, callerVars, configVars, startVars>>

NextChunk == Chunk
SpecChunk == InitChunk /\ [][NextChunk]_vars

\* chunkDocument on documents with tables, amounts and list items, called
\* with a metadata map, by either copy of the service, with or without a
\* failure inside the try block
MaxFlagLines == 3
FlagShapes == {"text", "table", "numbered", "formula"} \X {50, 300}
FlagDocs(maxLines) ==
    UNION {{[n \in 1..m |-> Line(n, f[n][1], f[n][2])] : f \in [1..m -> FlagShapes]} :
              m \in 1..maxLines}

\* {} ; { hasFormula: true } as in scripts/test-query-engineering.ts; all three keys
MetadataSamples ==
    {NoMetadata,
     [key \in {"hasFormula"} |-> TRUE],
     [key \in FlagKeys |-> key = "hasTable"]}

InitChunkMeta ==
    /\ RankIdle /\ RetrieveIdle /\ IngestIdle /\ CallerIdle /\ DefaultConfigured /\ StartIdle
    /\ doc \in FlagDocs(MaxFlagLines)
    /\ chunks = <<>> /\ chunkOp = "none"
    /\ metadata \in MetadataSamples
    /\ failure \in {"none", "traversal", "tokenizer"}
    /\ build \in {CurrentCopy, EarlierCopy}

NextChunkMeta == Chunk
SpecChunkMeta == InitChunkMeta /\ [][NextChunkMeta]_vars

----------------------------------------------------------------------------
\* Claims about chunkDocument

NonBlank(ls) == SelectSeq(ls, LAMBDA l : ~IsBlank(l))

\* a chunk's text minus the overlap it carries from the previous chunk
Fresh(c) == SubSeq(c.content, c.carried + 1, Len(c.content))

RECURSIVE ConcatFresh(_)
ConcatFresh(cs) == IF cs = <<>> THEN <<>> ELSE Fresh(Head(cs)) \o ConcatFresh(Tail(cs))

\* C5: concatenating, in sequence order, each chunk's text minus its carried
\* overlap reproduces the normalized text: no line is missing from the
\* chunks and none appears twice outside the overlap (stated on the
\* non-blank lines, which the exact reproduction implies).
C5_ChunkCoverage ==
    chunkOp = "chunked" => NonBlank(ConcatFresh(chunks)) = NonBlank(doc)

\* the tables of the document: maximal runs a..b of consecutive table rows
Tables ==
    {<<a, b>> \in (1..Len(doc)) \X (1..Len(doc)) :
        /\ a <= b
        /\ \A n \in a..b : IsTableRow(doc[n])
        /\ (a > 1 => ~IsTableRow(doc[a - 1]))
        /\ (b < Len(doc) => ~IsTableRow(doc[b + 1]))}

\* C6: every table whose rows are under the chunk budget has all its rows
\* together in one chunk, wherever the table sits in the document.
C6_TableAtomicity ==
    chunkOp = "chunked" =>
        \A t \in Tables :
            Encode(SubSeq(doc, t[1], t[2])) < chunkSize =>
                \E i \in 1..Len(chunks) :
                    \A n \in t[1]..t[2] : doc[n] \in Range(chunks[i].content)

\* a chunk whose own text (the carried overlap aside) is one line, or one
\* structural unit, that alone exceeds the budget
SingleOversizedUnit(c) ==
    LET fresh == Fresh(c)
    IN /\ Encode(fresh) > chunkSize
       /\ \/ Len(fresh) = 1
          \/ \E j \in 1..Len(doc) :
                /\ isSemanticBoundary(doc[j])
                /\ Trim(extractSemanticUnit(doc, j).content) = fresh

\* C7: every chunk but the last has tokenCount <= chunkSize unless it is a
\* single line or structural unit that alone exceeds the budget; carried
\* overlap plus a new line or unit never exceeds the budget.
C7_ChunkBudget ==
    chunkOp = "chunked" =>
        \A i \in 1..(Len(chunks) - 1) :
            chunks[i].tokenCount <= chunkSize \/ SingleOversizedUnit(chunks[i])

\* C11: chunkDocument never propagates an error to its caller: whichever step of
\* the traversal fails, the tokenizer included, the call returns the chunks of
\* the fallback, each tagged hasTable = hasFormula = false.
C11_ChunkingNeverThrows ==
    (chunkOp # "none" /\ failure # "none") =>
        /\ chunkOp = "fallback"
        /\ \A i \in 1..Len(chunks) : ~chunks[i].hasTable /\ ~chunks[i].hasFormula

\* the flags of a chunk as its own text gives them: the three tests of
\* createDocumentChunk, or the values fallbackChunking writes
OwnFlags(c) ==
    IF chunkOp = "chunked"
    THEN <<hasTable(c.content), hasFormula(c.content), hasNumbers(c.content)>>
    ELSE <<FALSE, FALSE, \E i \in 1..Len(c.content) : c.content[i].digit>>

\* C13: every chunk's hasTable, hasFormula and hasNumbers are the values
\* computed from the chunk's own text, whatever values the supplied document
\* metadata holds under the same keys.
C13_ChunkFlagsFromText ==
    chunkOp \in {"chunked", "fallback"} =>
        \A i \in 1..Len(chunks) :
            <<chunks[i].hasTable, chunks[i].hasFormula, chunks[i].hasNumbers>>
                = OwnFlags(chunks[i])

\* the header in force at line n of the document: the number of the nearest
\* markdown header line at or before n, 0 when there is none
HeaderInForce(lines, n) ==
    LET headers == {j \in 1..Len(lines) : j <= n /\ IsHeader(lines[j])}
    IN IF headers = {} THEN 0 ELSE CHOOSE j \in headers : \A h \in headers : h <= j

\* C21: the section stamped on a chunk is the nearest markdown header at or
\* before the last line of the chunk's text; a header that comes after the
\* chunk's content, such as the header line whose arrival closes the chunk,
\* never determines the chunk's section.
C21_SectionFromPrecedingHeader ==
    chunkOp = "chunked" =>
        \A i \in 1..Len(chunks) :
            chunks[i].content # <<>> =>
                chunks[i].section
                    = HeaderInForce(doc, chunks[i].content[Len(chunks[i].content)].n)

----------------------------------------------------------------------------
\* The collection and the keyword scorer

MaxCorpus == 4
MaxTopK == 2

\* calculateBM25Score: k1 = 1.2 (in tenths), b = 0.75 (in hundredths)
k1 == 12
b == 75
avgDocLength == 100

biasBoost == 20

\* Passage texts are padded to avgDocLength words, where the saturation
\* value of a term that occurs once is exactly 1.0.
Pad(words) == words \o [i \in 1..(avgDocLength - Len(words)) |-> "pad"]

PassageText(id) ==
    Pad(IF id % 3 = 1 THEN <<"ira">>
        ELSE IF id % 3 = 2 THEN <<"roth">>
        ELSE <<"ira", "roth">>)

PassageSection(id) ==
    IF id % 3 = 1 THEN <<"Contribution", "Limits">>
    ELSE IF id % 3 = 2 THEN NoTitle
    ELSE <<"Tax", "Credits">>

\* a stored passage as a channel returns it
Hit(id, score, src) ==
    ResultOf(id, PassageText(id), score, src, PassageSection(id), NoTitle)

CountOf(term, terms) == Len(SelectSeq(terms, LAMBDA t : t = term))

\* normalizedTF = tf * (k1 + 1) / (tf + k1 * (1 - b + b * docLength / avgDocLength)),
\* in hundredths
NormalizedTF(tf, docLength) ==
    (ScoreDen * tf * (k1 + Tenths) * ScoreDen * avgDocLength)
        \div (tf * Tenths * ScoreDen * avgDocLength
              + k1 * ((ScoreDen - b) * avgDocLength + b * docLength))

RECURSIVE SumNormalizedTF(_, _)
SumNormalizedTF(queryTerms, docTerms) ==
    IF queryTerms = <<>> THEN 0
    ELSE LET tf == CountOf(Head(queryTerms), docTerms)
         IN (IF tf > 0 THEN NormalizedTF(tf, Len(docTerms)) ELSE 0)
            + SumNormalizedTF(Tail(queryTerms), docTerms)

\* score / queryTerms.length; 0 / 0 is NaN, which is not > 0
calculateBM25Score(queryTerms, docTerms) ==
    IF queryTerms = <<>> THEN 0
    ELSE SumNormalizedTF(queryTerms, docTerms) \div Len(queryTerms)

\* buildTextFilter: the first three terms of length >= 3, or no filter
buildTextFilter(queryTerms) ==
    LET significantTerms == SubSeq(SelectSeq(queryTerms, LAMBDA t : Len(t) >= 3), 1,
                                   Min(3, Len(SelectSeq(queryTerms, LAMBDA t : Len(t) >= 3))))
    IN significantTerms

\* collection.get({where: {$or: [{document: {$contains: term}}]}, limit, offset}):
\* the passages whose text contains one of the terms (all of them without a
\* filter), from offset, at most limit of them
MatchesFilter(id, textFilter) ==
    textFilter = <<>> \/ \E i \in 1..Len(textFilter) : textFilter[i] \in Range(PassageText(id))

CollectionGet(ids, textFilter, limit, offset) ==
    LET matching == SelectSeq(ids, LAMBDA id : MatchesFilter(id, textFilter))
    IN SubSeq(matching, offset + 1, Min(Len(matching), offset + limit))

\* the scoring loop over one batch: push the passages that score > 0
RECURSIVE ScoreBatch(_, _, _)
ScoreBatch(batch, queryTerms, scoredResults) ==
    IF batch = <<>> THEN scoredResults
    ELSE LET score == calculateBM25Score(queryTerms, tokenizeForBM25(PassageText(Head(batch))))
         IN ScoreBatch(Tail(batch), queryTerms,
                IF score > 0 THEN Append(scoredResults, Hit(Head(batch), score, "keyword"))
                ELSE scoredResults)

\* scoredResults.sort((a, b) => b.score - a.score).slice(0, topK)
TopK(scoredResults, k) ==
    SubSeq(SortByScoreDesc(scoredResults), 1, Min(k, Len(scoredResults)))

----------------------------------------------------------------------------
\* Section bias

\* haystack.includes(needle) on titles in lower case: needle's words occur
\* consecutively in haystack
Includes(haystack, needle) ==
    \E i \in 0..(Len(haystack) - Len(needle)) :
        SubSeq(haystack, i + 1, i + Len(needle)) = needle

\* title?.toLowerCase().includes(priority.toLowerCase()); an absent title is undefined
TitleMatches(title, priority) ==
    title # NoTitle /\ Includes(LowerWords(title), LowerWords(priority))

matchesPriority(result, prioritySections) ==
    \E i \in 1..Len(prioritySections) :
        \/ TitleMatches(result.section, prioritySections[i])
        \/ TitleMatches(result.subsection, prioritySections[i])

\* the boost without Math.min(1.0, ...)
applySectionBias_uncapped(results, prioritySections) ==
    [i \in 1..Len(results) |->
        IF matchesPriority(results[i], prioritySections)
        THEN [results[i] EXCEPT !.score = results[i].score + biasBoost]
        ELSE results[i]]

\* the boost given to every candidate, matching or not
applySectionBias_boostAll(results, prioritySections) ==
    [i \in 1..Len(results) |->
        [results[i] EXCEPT !.score = Min(ScoreDen, results[i].score + biasBoost)]]

applySectionBias(results, prioritySections) ==
    IF Len(prioritySections) = 0 THEN results
    ELSE [i \in 1..Len(results) |->
            IF matchesPriority(results[i], prioritySections)
            THEN [results[i] EXCEPT !.score = Min(ScoreDen, results[i].score + biasBoost)]
            ELSE results[i]]

\* applySectionBias on its own: candidates with and without titles, and the
\* priority sections of an expansion
MaxBiasPool == 2
TitleSamples ==
    {NoTitle, <<"Contribution", "Limits">>, <<"IRA", "Contribution", "Limits", "2024">>,
     <<"Tax", "Credits">>}
PrioritySamples ==
    {<<>>,
     << <<"contribution", "limits">> >>,
     << <<"Retirement", "Planning">>, <<"Contribution", "Limits">> >>}

BiasPools(maxLen) ==
    {[i \in 1..Len(sc) |-> ResultOf(i, <<>>, sc[i], "hybrid", sec[i], sub[i])] :
        <<sc, sec, sub>> \in
            {p \in SeqsUpTo(ScoreSamples, maxLen) \X SeqsUpTo(TitleSamples, maxLen)
                      \X SeqsUpTo({NoTitle, <<"Tax", "Credits">>, <<"Contribution", "Limits">>},
                                  maxLen) :
                Len(p[1]) = Len(p[2]) /\ Len(p[2]) = Len(p[3])}}

InitBias ==
    /\ ChunkIdle /\ RetrieveIdle /\ IngestIdle /\ CallerIdle /\ DefaultConfigured /\ StartIdle
    /\ pool \in BiasPools(MaxBiasPool)
    /\ priorities \in PrioritySamples
    /\ vectorResults = <<>> /\ keywordResults = <<>> /\ alpha = 0
    /\ topK = 0 /\ lambda = 0
    /\ rankOut = <<>> /\ rankOp = "none"

Bias ==
    /\ rankOp = "none"
    /\ rankOut' = applySectionBias(pool, priorities)
    /\ rankOp' = "bias"
    /\ UNCHANGED <<vectorResults, keywordResults, alpha, pool, topK, lambda, priorities>>
    /\ UNCHANGED <<chunkVars, retrieveVars, ingestVars, callerVars, configVars, startVars>>

NextBias == Bias
SpecBias == InitBias /\ [][NextBias]_vars

\* C14: for every candidate whose section or subsection contains a priority
\* section, case-insensitively, the score applySectionBias returns is at most
\* 1.0: the boosted score capped (0.9 becomes 1.0, not 1.1).
C14_BiasCappedAtOne ==
    rankOp = "bias" =>
        /\ Len(rankOut) = Len(pool)
        /\ \A i \in 1..Len(pool) :
              matchesPriority(pool[i], priorities) =>
                  /\ rankOut[i].score <= ScoreDen
                  /\ (pool[i].score + biasBoost >= ScoreDen => rankOut[i].score = ScoreDen)

\* C14 witness: a candidate of score 0.9 whose section contains a priority
\* section written in another case was boosted.
C14_Witness ==
    /\ rankOp = "bias"
    /\ \E i \in 1..Len(pool) :
          /\ pool[i].score + biasBoost > ScoreDen /\ pool[i].score < ScoreDen
          /\ pool[i].section = <<"IRA", "Contribution", "Limits", "2024">>
          /\ priorities = << <<"contribution", "limits">> >>
          /\ rankOut[i].score = ScoreDen

\* C22: section bias is a boost: for every candidate and every non-negative
\* input score the fusion stage can produce, fused scores above 1.0
\* included, the score applySectionBias returns is never lower than the
\* candidate's input score.
C22_BiasNeverLowers ==
    rankOp = "bias" =>
        /\ Len(rankOut) = Len(pool)
        /\ \A i \in 1..Len(pool) : rankOut[i].score >= pool[i].score

\* C23: applySectionBias keeps the number and the order of the candidates
\* and the score of every candidate that matches no priority section; with
\* no priority section every candidate is returned as it was.
C23_BiasFrame ==
    rankOp = "bias" =>
        /\ Len(rankOut) = Len(pool)
        /\ \A i \in 1..Len(pool) :
              /\ rankOut[i].chunkId = pool[i].chunkId
              /\ ~matchesPriority(pool[i], priorities) => rankOut[i] = pool[i]
        /\ priorities = <<>> => rankOut = pool

\* C23 witness: of two candidates the first matches a priority section and
\* was boosted, the second matches none and kept its score.
C23_Witness ==
    /\ rankOp = "bias" /\ priorities # <<>> /\ Len(pool) = MaxBiasPool
    /\ matchesPriority(pool[1], priorities) /\ rankOut[1].score > pool[1].score
    /\ ~matchesPriority(pool[Len(pool)], priorities)
    /\ pool[Len(pool)].section # NoTitle
    /\ rankOut[Len(pool)].score = pool[Len(pool)].score

----------------------------------------------------------------------------
\* Query expansion
\*
\* A query is a sequence of words.  An abbreviation has no blank, so it
\* occurs in a text inside one of its words: as the whole word, or as a part
\* of it.

abbreviations ==
    << <<"IRA", <<"Individual", "Retirement", "Account", "IRA">> >>,
       <<"401k", <<"401(k)", "plan", "401k">> >>,
       <<"401(k)", <<"401(k)", "plan">> >>,
       <<"HSA", <<"Health", "Savings", "Account", "HSA">> >>,
       <<"FSA", <<"Flexible", "Spending", "Account", "FSA">> >>,
       <<"ROTH", <<"Roth", "IRA", "Roth">> >>,
       <<"SEP", <<"SEP-IRA", "Simplified", "Employee", "Pension">> >>,
       <<"SIMPLE", <<"SIMPLE", "IRA">> >>,
       <<"TSP", <<"Thrift", "Savings", "Plan", "TSP">> >>,
       <<"AGI", <<"Adjusted", "Gross", "Income", "AGI">> >>,
       <<"MAGI", <<"Modified", "Adjusted", "Gross", "Income", "MAGI">> >> >>

\* where abbr occurs in word, case ignored: <<the text before it, the text
\* after it>>, or NoOccurrence.  The words are those of QueryWords and of the
\* expansions.
NoOccurrence == <<>>
Occurrence(word, abbr) ==
    IF LowerCase(word) = LowerCase(abbr) THEN <<"", "">>
    ELSE IF word = "MAGI" /\ abbr = "AGI" THEN <<"M", "">>
    ELSE IF word = "separate" /\ abbr = "SEP" THEN <<"", "arate">>
    ELSE NoOccurrence

\* the words of before + expansion + after
Glue(before, expansion, after) ==
    [i \in 1..Len(expansion) |->
        (IF i = 1 THEN before ELSE "") \o expansion[i]
            \o (IF i = Len(expansion) THEN after ELSE "")]

\* expanded.replace(new RegExp(sanitizedAbbr, 'gi'), expansion)
RECURSIVE ReplaceWord(_, _, _)
ReplaceWord(text, abbr, expansion) ==
    IF text = <<>> THEN <<>>
    ELSE LET at == Occurrence(Head(text), abbr)
         IN (IF at = NoOccurrence THEN <<Head(text)>> ELSE Glue(at[1], expansion, at[2]))
            \o ReplaceWord(Tail(text), abbr, expansion)

\* query.toLowerCase().includes(abbr.toLowerCase())
QueryIncludes(query, abbr) ==
    \E i \in 1..Len(query) : Occurrence(query[i], abbr) # NoOccurrence

\* the loop over the dictionary: [expanded, expansionTerms]
RECURSIVE ApplyAbbreviations(_, _, _, _)
ApplyAbbreviations(i, query, expanded, expansionTerms) ==
    IF i > Len(abbreviations) THEN [expanded |-> expanded, expansionTerms |-> expansionTerms]
    ELSE LET abbr == abbreviations[i][1]
             expansion == abbreviations[i][2]
         IN IF QueryIncludes(query, abbr)
            THEN ApplyAbbreviations(i + 1, query, ReplaceWord(expanded, abbr, expansion),
                                    Append(expansionTerms, expansion))
            ELSE ApplyAbbreviations(i + 1, query, expanded, expansionTerms)

\* userContextTerms.join(' '): the words of the terms, in order
RECURSIVE JoinTerms(_)
JoinTerms(terms) ==
    IF terms = <<>> THEN <<>> ELSE Head(terms) \o JoinTerms(Tail(terms))

createFallbackExpansion(query, user) ==
    LET abbr == ApplyAbbreviations(1, query, query, <<>>)
        userContextTerms ==
            IF user.present
            THEN (IF user.age < 50
                  THEN << <<"under", "50">>, <<"no", "catch-up", "contributions">> >>
                  ELSE << <<"age", "50", "or", "over">>, <<"catch-up", "contributions">> >>)
                 \o << <<user.filing_status>>, <<user.residency_state>> >>
            ELSE <<>>
        prioritySections ==
            IF user.present
            THEN (IF "retirement" \in user.goals
                  THEN << <<"Retirement", "Planning">>, <<"Contribution", "Limits">> >>
                  ELSE <<>>)
                 \o (IF "tax_optimization" \in user.goals
                     THEN << <<"Tax", "Deductions">>, <<"Tax", "Credits">> >>
                     ELSE <<>>)
            ELSE <<>>
    IN [original |-> query,
        expanded |-> abbr.expanded \o JoinTerms(userContextTerms),
        expansionTerms |-> abbr.expansionTerms,
        userContextTerms |-> userContextTerms,
        prioritySections |-> prioritySections,
        path |-> "fallback"]

\* A provider reply to expandQuery: the call throws, the response has no
\* text content ("invalid"), or it is a text in which extractField finds the
\* fields of parsed, with the values the reply holds for them.
FieldNames == {"EXPANDED_QUERY", "EXPANSION_TERMS", "USER_CONTEXT_TERMS", "PRIORITY_SECTIONS"}

Reply(kind, parsed, expanded) ==
    [kind |-> kind, parsed |-> parsed,
     expanded |-> IF "EXPANDED_QUERY" \in parsed THEN expanded ELSE <<>>,
     terms |-> IF "EXPANSION_TERMS" \in parsed
               THEN << <<"individual", "retirement", "account">> >> ELSE <<>>,
     context |-> IF "USER_CONTEXT_TERMS" \in parsed THEN << <<"single", "filer">> >> ELSE <<>>,
     sections |-> IF "PRIORITY_SECTIONS" \in parsed
                  THEN << <<"contribution", "limits">> >> ELSE <<>>]

ReplyThrows == Reply("throws", {}, <<>>)
ReplyInvalid == Reply("invalid", {}, <<>>)
\* a text without any of the fields
ReplyDegenerate == Reply("text", {}, <<>>)
\* a text with the query kept and extended, terms and priority sections
ReplyFull(query) ==
    Reply("text", FieldNames \ {"USER_CONTEXT_TERMS"},
          query \o <<"individual", "retirement", "account">>)

\* the EXPANDED_QUERY of a reply: the query extended, the query itself, or
\* a rewording that keeps none of its words
ExpandedSamples(query) ==
    {query \o <<"individual", "retirement", "account">>, query,
     <<"retirement", "savings", "limits">>}

Replies(query) ==
    {ReplyThrows, ReplyInvalid}
        \cup {Reply("text", parsed, expanded) :
                  parsed \in SUBSET FieldNames, expanded \in ExpandedSamples(query)}

\* expandQuery after the provider call
expandQuery(query, user, reply) ==
    IF reply.kind # "text" THEN createFallbackExpansion(query, user)
    ELSE LET \* extractField(...) || query ; extractField(...)?.split(',')... || []
             expandedText == IF "EXPANDED_QUERY" \in reply.parsed THEN reply.expanded
                              ELSE query
             expansionTerms == reply.terms
             userContextTerms == reply.context
             prioritySections == reply.sections
         IN IF expandedText = query /\ expansionTerms = <<>> /\ userContextTerms = <<>>
            THEN createFallbackExpansion(query, user)
            ELSE [original |-> query,
                  expanded |-> expandedText,
                  expansionTerms |-> expansionTerms,
                  userContextTerms |-> userContextTerms,
                  prioritySections |-> prioritySections,
                  path |-> "provider"]

\* generateEmbedding after the provider call: which embedding is returned,
\* or that the call threw
generateEmbedding_noCatch(reply) ==
    IF reply = "text" THEN [threw |-> FALSE, path |-> "provider"]
    ELSE IF reply = "invalid" THEN [threw |-> FALSE, path |-> "fallback"]
    ELSE [threw |-> TRUE, path |-> "none"]

generateEmbedding(reply) ==
    IF reply = "text" THEN [threw |-> FALSE, path |-> "provider"]
    ELSE [threw |-> FALSE, path |-> "fallback"]

----------------------------------------------------------------------------
\* expandQuery on its own: one call with a query, a profile and a provider
\* reply.

ExpandQuerySamples ==
    {<<"IRA", "limit">>, <<"MAGI", "limit">>, <<"AGI">>, <<"401k", "401(k)">>,
     <<"SEP", "limit">>, <<"separate", "filing">>, <<"ROTH", "IRA">>, <<"limit">>}

ExpandUserSamples ==
    {NoUser,
     [present |-> TRUE, age |-> 55, filing_status |-> "single",
      residency_state |-> "NY", goals |-> {"retirement", "tax_optimization"}],
     [present |-> TRUE, age |-> 30, filing_status |-> "single",
      residency_state |-> "NY", goals |-> {"retirement"}]}

InitExpand ==
    /\ RankIdle /\ ChunkIdle /\ IngestIdle /\ CallerIdle /\ DefaultConfigured /\ StartIdle
    /\ store = <<>> /\ isInitialized = FALSE
    /\ pc = "expand"
    /\ request \in [query : ExpandQuerySamples, user : ExpandUserSamples, topK : {1}]
    /\ expandedQuery = NoExpansion /\ expansionReply = NoReply
    /\ embedding = "none" /\ vectorHits = <<>> /\ scan = NoScan
    /\ keywordHits = <<>> /\ hybridResults = <<>> /\ diverseResults = <<>>
    /\ finalResults = <<>> /\ outcome = "pending" /\ stages = <<>>
    /\ providerResponded = FALSE /\ storeFault = "none"

ExpandQuery ==
    /\ pc = "expand"
    /\ \E reply \in Replies(request.query) :
          /\ expandedQuery' = expandQuery(request.query, request.user, reply)
          /\ expansionReply' = reply
          /\ providerResponded' = (reply.kind # "throws")
    /\ pc' = "expanded"
    /\ UNCHANGED <<rankVars, chunkVars, ingestVars, callerVars, configVars, startVars>>
    /\ UNCHANGED <<store, isInitialized, request, embedding, vectorHits, scan,
                   keywordHits, hybridResults, diverseResults, finalResults, outcome,
                   stages, storeFault>>

NextExpand == ExpandQuery
SpecExpand == InitExpand /\ [][NextExpand]_vars

\* the text before and after an abbreviation inside a word (Occurrence)
Prefixes == {"", "M"}
Suffixes == {"", "arate"}

\* phrase is a substring of text: its words in a row, the first one possibly
\* at the end of a longer word and the last one at the start of a longer word
ContainsText(text, phrase) ==
    \E i \in 1..(Len(text) - Len(phrase) + 1) :
        \E before \in Prefixes, after \in Suffixes :
            \A j \in 1..Len(phrase) :
                text[i + j - 1] =
                    (IF j = 1 THEN before ELSE "") \o phrase[j]
                        \o (IF j = Len(phrase) THEN after ELSE "")

\* the whitespace-separated terms of a text
Terms(text) == Range(text)

\* C15: on the fallback path, for every abbreviation of the dictionary that
\* occurs in the query the expanded string contains the abbreviation's full
\* expansion text, for a profile of age 50 or more it contains the
\* age-50-or-over marker, and the expanded string is the one every call with
\* the same input yields.
C15_FallbackExpansionComplete ==
    (pc = "expanded" /\ expandedQuery.path = "fallback") =>
        /\ \A i \in 1..Len(abbreviations) :
              QueryIncludes(request.query, abbreviations[i][1]) =>
                  ContainsText(expandedQuery.expanded, abbreviations[i][2])
        /\ (request.user.present /\ request.user.age >= 50) =>
              ContainsText(expandedQuery.expanded, <<"age", "50", "or", "over">>)
        /\ expandedQuery.expanded
               = createFallbackExpansion(request.query, request.user).expanded

\* C16: for every provider reply in which at least one of the four fields
\* cannot be parsed, expandQuery returns exactly the result it returns when
\* the provider call fails.
C16_UnparsedReplyIsFallback ==
    (pc = "expanded" /\ expansionReply.kind = "text"
         /\ expansionReply.parsed # FieldNames) =>
        expandedQuery = expandQuery(request.query, request.user, ReplyThrows)

\* C17: on the provider path and on the fallback path, every term of the
\* original query is still a term of the expanded string.
C17_ExpandedKeepsOriginalTerms ==
    pc = "expanded" => Terms(request.query) \subseteq Terms(expandedQuery.expanded)

----------------------------------------------------------------------------
\* retrieveDocumentsWithExpansion: one call, stage by stage.  Every call to
\* the provider or to the vector store may fail.

QuerySamples == {<<"IRA", "limit">>, <<"of">>}
UserSamples ==
    {NoUser,
     [present |-> TRUE, age |-> 55, filing_status |-> "single",
      residency_state |-> "NY", goals |-> {"retirement", "tax_optimization"}]}

\* distances the store answers with, in hundredths
DistanceSamples == {10, 70, 130}

Max(x, y) == IF x >= y THEN x ELSE y

IsNonDecreasing(s) == \A i \in 1..(Len(s) - 1) : s[i] <= s[i + 1]

\* collection.query(nResults): the nearest passages, nearest first, converted
\* by vectorSearch with similarity = Math.max(0, 1 - distance)
VectorAnswers(ids, nResults) ==
    LET n == Min(nResults, Len(ids))
    IN {[i \in 1..n |-> Hit(order[i], Max(0, ScoreDen - dist[i]), "vector")] :
            <<order, dist>> \in
                {p \in [1..n -> Range(ids)] \X [1..n -> DistanceSamples] :
                    IsInjective(p[1]) /\ IsNonDecreasing(p[2])}}

\* Math.min(topK * 2, 20)
PoolSize(k) == Min(k * 2, 20)

Stage(name) == stages' = Append(stages, name)

\* an error leaves retrieveDocuments or retrieveDocumentsWithExpansion: it is
\* rethrown as "Failed to retrieve documents" to the caller
Throw ==
    /\ pc' = "failed"
    /\ outcome' = "error"

Start ==
    /\ UNCHANGED <<rankVars, chunkVars, ingestVars, callerVars, configVars, startVars>>
    /\ pc = "idle"
    /\ \E q \in QuerySamples, u \in UserSamples, k \in 1..MaxTopK :
          request' = [query |-> q, user |-> u, topK |-> k]
    /\ pc' = "initialize"
    /\ UNCHANGED <<store, isInitialized, expandedQuery, expansionReply, embedding, vectorHits, scan,
                   keywordHits, hybridResults, diverseResults, finalResults, outcome,
                   stages, providerResponded, storeFault>>

\* initialize(): heartbeat and ensureCollectionExists succeed
InitializeOk ==
    /\ UNCHANGED <<rankVars, chunkVars, ingestVars, callerVars, configVars, startVars>>
    /\ pc = "initialize"
    /\ isInitialized' = TRUE
    /\ pc' = "expand"
    /\ UNCHANGED <<store, request, expandedQuery, expansionReply, embedding, vectorHits, scan,
                   keywordHits, hybridResults, diverseResults, finalResults, outcome,
                   stages, providerResponded, storeFault>>

\* initialize(): the store is unreachable; isInitialized stays false
InitializeFails ==
    /\ UNCHANGED <<rankVars, chunkVars, ingestVars, callerVars, configVars, startVars>>
    /\ pc = "initialize"
    /\ ~isInitialized
    /\ storeFault' = "initialize"
    /\ Throw
    /\ UNCHANGED <<store, isInitialized, request, expandedQuery, expansionReply, embedding, vectorHits,
                   scan, keywordHits, hybridResults, diverseResults, finalResults,
                   stages, providerResponded>>

\* Step 1: expandQuery; it never throws
Expand ==
    /\ UNCHANGED <<rankVars, chunkVars, ingestVars, callerVars, configVars, startVars>>
    /\ pc = "expand"
    /\ \E reply \in {ReplyThrows, ReplyDegenerate, ReplyFull(request.query)} :
          /\ expandedQuery' = expandQuery(request.query, request.user, reply)
          /\ expansionReply' = reply
          /\ providerResponded' = (providerResponded \/ reply.kind # "throws")
    /\ Stage("expand")
    /\ pc' = "embed"
    /\ UNCHANGED <<store, isInitialized, request, embedding, vectorHits, scan,
                   keywordHits, hybridResults, diverseResults, finalResults, outcome,
                   storeFault>>

\* retrieveDocuments, vectorSearch: generateEmbedding(expanded query)
Embed ==
    /\ UNCHANGED <<rankVars, chunkVars, ingestVars, callerVars, configVars, startVars>>
    /\ pc = "embed"
    /\ \E reply \in {"throws", "invalid", "text"} :
          LET e == generateEmbedding(reply)
          IN /\ providerResponded' = (providerResponded \/ reply # "throws")
             /\ IF e.threw
                THEN Throw /\ UNCHANGED embedding
                ELSE embedding' = e.path /\ pc' = "vectorQuery" /\ UNCHANGED outcome
    /\ UNCHANGED <<store, isInitialized, request, expandedQuery, expansionReply,
                   vectorHits, scan,
                   keywordHits, hybridResults, diverseResults, finalResults,
                   stages, storeFault>>

\* vectorSearch: getCollection and collection.query succeed
VectorQueryOk ==
    /\ UNCHANGED <<rankVars, chunkVars, ingestVars, callerVars, configVars, startVars>>
    /\ pc = "vectorQuery"
    /\ vectorHits' \in VectorAnswers(store, PoolSize(request.topK))
    /\ Stage("vector")
    /\ pc' = "keywordOpen"
    /\ UNCHANGED <<store, isInitialized, request, expandedQuery, expansionReply, embedding, scan,
                   keywordHits, hybridResults, diverseResults, finalResults, outcome,
                   providerResponded, storeFault>>

VectorQueryFails ==
    /\ UNCHANGED <<rankVars, chunkVars, ingestVars, callerVars, configVars, startVars>>
    /\ pc = "vectorQuery"
    /\ storeFault' = "vectorQuery"
    /\ Throw
    /\ UNCHANGED <<store, isInitialized, request, expandedQuery, expansionReply, embedding, vectorHits,
                   scan, keywordHits, hybridResults, diverseResults, finalResults,
                   stages, providerResponded>>

\* keywordSearch: getCollection succeeds, the loop variables are set
KeywordOpenOk ==
    /\ UNCHANGED <<rankVars, chunkVars, ingestVars, callerVars, configVars, startVars>>
    /\ pc = "keywordOpen"
    /\ scan' = [page |-> 0, totalDocsProcessed |-> 0, currentOffset |-> 0,
                totalDocsEstimate |-> 1000, scoredResults |-> <<>>]
    /\ pc' = "keywordPage"
    /\ UNCHANGED <<store, isInitialized, request, expandedQuery, expansionReply, embedding, vectorHits,
                   keywordHits, hybridResults, diverseResults, finalResults, outcome,
                   stages, providerResponded, storeFault>>

\* keywordSearch: getCollection throws, outside the loop's try
KeywordOpenFails ==
    /\ UNCHANGED <<rankVars, chunkVars, ingestVars, callerVars, configVars, startVars>>
    /\ pc = "keywordOpen"
    /\ storeFault' = "keywordOpen"
    /\ Throw
    /\ UNCHANGED <<store, isInitialized, request, expandedQuery, expansionReply, embedding, vectorHits,
                   scan, keywordHits, hybridResults, diverseResults, finalResults,
                   stages, providerResponded>>

QueryTerms == tokenizeForBM25(LowerWords(expandedQuery.expanded))

\* the page loop without currentOffset += batchSize
AfterBatch_sameOffset(sc, batch, queryTerms, k) ==
    LET batchSize == Len(batch)
        estimate ==
            IF sc.page = 0 /\ batchSize = config.keywordBatchSize
            THEN Min(config.maxScanLimit, batchSize * config.maxKeywordPages)
            ELSE sc.totalDocsEstimate
        scored == ScoreBatch(batch, queryTerms, sc.scoredResults)
        early == Len(scored) >= k * 3 /\ sc.page >= 2
        atEnd == batchSize < config.keywordBatchSize
    IN IF batchSize = 0 THEN [scan |-> sc, continue |-> FALSE]
       ELSE [scan |-> [page |-> IF early \/ atEnd THEN sc.page ELSE sc.page + 1,
                       totalDocsProcessed |-> sc.totalDocsProcessed + batchSize,
                       currentOffset |-> sc.currentOffset,
                       totalDocsEstimate |-> estimate,
                       scoredResults |-> scored],
             continue |-> ~early /\ ~atEnd]

\* the page loop ending at the third page whatever was collected
AfterBatch_stopAtThirdPage(sc, batch, queryTerms, k) ==
    LET batchSize == Len(batch)
        estimate ==
            IF sc.page = 0 /\ batchSize = config.keywordBatchSize
            THEN Min(config.maxScanLimit, batchSize * config.maxKeywordPages)
            ELSE sc.totalDocsEstimate
        scored == ScoreBatch(batch, queryTerms, sc.scoredResults)
        early == sc.page >= 2
        atEnd == batchSize < config.keywordBatchSize
    IN IF batchSize = 0 THEN [scan |-> sc, continue |-> FALSE]
       ELSE [scan |-> [page |-> IF early \/ atEnd THEN sc.page ELSE sc.page + 1,
                       totalDocsProcessed |-> sc.totalDocsProcessed + batchSize,
                       currentOffset |-> IF early THEN sc.currentOffset
                                         ELSE sc.currentOffset + batchSize,
                       totalDocsEstimate |-> estimate,
                       scoredResults |-> scored],
             continue |-> ~early /\ ~atEnd]

\* the loop variables after a page whose fetch returned batch, and whether
\* the loop goes on to the next page
AfterBatch(sc, batch, queryTerms, k) ==
    LET batchSize == Len(batch)
        estimate ==
            IF sc.page = 0 /\ batchSize = config.keywordBatchSize
            THEN Min(config.maxScanLimit, batchSize * config.maxKeywordPages)
            ELSE sc.totalDocsEstimate
        scored == ScoreBatch(batch, queryTerms, sc.scoredResults)
        early == Len(scored) >= k * 3 /\ sc.page >= 2
        atEnd == batchSize < config.keywordBatchSize
    IN IF batchSize = 0 THEN [scan |-> sc, continue |-> FALSE]
       ELSE [scan |-> [page |-> IF early \/ atEnd THEN sc.page ELSE sc.page + 1,
                       totalDocsProcessed |-> sc.totalDocsProcessed + batchSize,
                       currentOffset |-> IF early THEN sc.currentOffset
                                         ELSE sc.currentOffset + batchSize,
                       totalDocsEstimate |-> estimate,
                       scoredResults |-> scored],
             continue |-> ~early /\ ~atEnd]

\* one iteration of the page loop whose collection.get succeeds
KeywordPageOk ==
    /\ UNCHANGED <<rankVars, chunkVars, ingestVars, callerVars, configVars, startVars>>
    /\ pc = "keywordPage"
    /\ scan.page < config.maxKeywordPages
    /\ scan.totalDocsProcessed < config.maxScanLimit
    /\ LET batch == CollectionGet(store, buildTextFilter(QueryTerms),
                                  config.keywordBatchSize, scan.currentOffset)
           r == AfterBatch(scan, batch, QueryTerms, PoolSize(request.topK))
       IN /\ scan' = r.scan
          /\ pc' = IF r.continue THEN "keywordPage" ELSE "keywordSort"
    /\ UNCHANGED <<store, isInitialized, request, expandedQuery, expansionReply, embedding, vectorHits,
                   keywordHits, hybridResults, diverseResults, finalResults, outcome,
                   stages, providerResponded, storeFault>>

\* one iteration whose collection.get throws: catch (error) { break }
KeywordPageFails ==
    /\ UNCHANGED <<rankVars, chunkVars, ingestVars, callerVars, configVars, startVars>>
    /\ pc = "keywordPage"
    /\ scan.page < config.maxKeywordPages
    /\ scan.totalDocsProcessed < config.maxScanLimit
    /\ storeFault' = "keywordPage"
    /\ pc' = "keywordSort"
    /\ UNCHANGED <<store, isInitialized, request, expandedQuery, expansionReply, embedding, vectorHits,
                   scan, keywordHits, hybridResults, diverseResults, finalResults, outcome,
                   stages, providerResponded>>

\* the loop ends at the page ceiling or the scan ceiling
KeywordCeiling ==
    /\ UNCHANGED <<rankVars, chunkVars, ingestVars, callerVars, configVars, startVars>>
    /\ pc = "keywordPage"
    /\ scan.page >= config.maxKeywordPages \/ scan.totalDocsProcessed >= config.maxScanLimit
    /\ pc' = "keywordSort"
    /\ UNCHANGED <<store, isInitialized, request, expandedQuery, expansionReply, embedding, vectorHits,
                   scan, keywordHits, hybridResults, diverseResults, finalResults, outcome,
                   stages, providerResponded, storeFault>>

\* keywordSearch returns: sort by score, slice(0, topK)
KeywordSort ==
    /\ UNCHANGED <<rankVars, chunkVars, ingestVars, callerVars, configVars, startVars>>
    /\ pc = "keywordSort"
    /\ keywordHits' = TopK(scan.scoredResults, PoolSize(request.topK))
    /\ Stage("keyword")
    /\ pc' = "fuse"
    /\ UNCHANGED <<store, isInitialized, request, expandedQuery, expansionReply, embedding, vectorHits,
                   scan, hybridResults, diverseResults, finalResults, outcome,
                   providerResponded, storeFault>>

\* Step 3 of retrieveDocuments
FuseStage ==
    /\ UNCHANGED <<rankVars, chunkVars, ingestVars, callerVars, configVars, startVars>>
    /\ pc = "fuse"
    /\ hybridResults' = fuseResults(vectorHits, keywordHits, hybridAlpha)
    /\ Stage("fuse")
    /\ pc' = "diversify"
    /\ UNCHANGED <<store, isInitialized, request, expandedQuery, expansionReply, embedding, vectorHits,
                   scan, keywordHits, diverseResults, finalResults, outcome,
                   providerResponded, storeFault>>

\* Step 4 of retrieveDocuments, whose result retrieveDocuments returns
DiversifyStage ==
    /\ UNCHANGED <<rankVars, chunkVars, ingestVars, callerVars, configVars, startVars>>
    /\ pc = "diversify"
    /\ diverseResults' = applyMMR(hybridResults, request.topK, mmrLambda)
    /\ Stage("diversify")
    /\ pc' = "bias"
    /\ UNCHANGED <<store, isInitialized, request, expandedQuery, expansionReply, embedding, vectorHits,
                   scan, keywordHits, hybridResults, finalResults, outcome,
                   providerResponded, storeFault>>

\* Steps 3 and 4 of retrieveDocumentsWithExpansion: bias, re-sort, return
BiasAndResort ==
    /\ UNCHANGED <<rankVars, chunkVars, ingestVars, callerVars, configVars, startVars>>
    /\ pc = "bias"
    /\ finalResults' =
          SortByScoreDesc(applySectionBias(diverseResults, expandedQuery.prioritySections))
    /\ stages' = stages \o <<"bias", "resort">>
    /\ outcome' = "ok"
    /\ pc' = "done"
    /\ UNCHANGED <<store, isInitialized, request, expandedQuery, expansionReply, embedding, vectorHits,
                   scan, keywordHits, hybridResults, diverseResults,
                   providerResponded, storeFault>>

Stores(maxSize) == {[i \in 1..n |-> i] : n \in 0..maxSize}

Init ==
    /\ RankIdle /\ ChunkIdle /\ IngestIdle /\ CallerIdle /\ DefaultConfigured /\ StartIdle
    /\ store \in Stores(MaxCorpus)
    /\ isInitialized = FALSE
    /\ CallIdle

Next ==
    \/ Start
    \/ InitializeOk
    \/ InitializeFails
    \/ Expand
    \/ Embed
    \/ VectorQueryOk
    \/ VectorQueryFails
    \/ KeywordOpenOk
    \/ KeywordOpenFails
    \/ KeywordPageOk
    \/ KeywordPageFails
    \/ KeywordCeiling
    \/ KeywordSort
    \/ FuseStage
    \/ DiversifyStage
    \/ BiasAndResort

Spec == Init /\ [][Next]_vars

----------------------------------------------------------------------------
\* Claims about the retrieval call

\* the passages of a result list with their scores, whatever the order
Returned(results) == {<<getResultKey(results[i]), results[i].score>> : i \in 1..Len(results)}

\* C3: the MMR selection of the k returned passages is the last stage and is
\* computed on the bias-adjusted, re-sorted scores of the fused pool: the
\* passages a successful call returns are those MMR selects from that pool.
C3_DiversifyOnBiasedPool ==
    (pc = "done" /\ outcome = "ok") =>
        /\ stages = <<"expand", "vector", "keyword", "fuse", "bias", "resort", "diversify">>
        /\ Returned(finalResults) =
              Returned(applyMMR(SortByScoreDesc(applySectionBias(hybridResults,
                                                    expandedQuery.prioritySections)),
                                request.topK, mmrLambda))

\* C4: if the store fails while the keyword channel fetches a page of its
\* scan, the call ends in a retrieval error and never returns a result.
C4_PageFailureIsFatal ==
    storeFault = "keywordPage" => outcome # "ok"

\* C12: a call against an initialized store whose collection is empty, with
\* no store failure, returns an empty result list as a success.
C12_EmptyCorpusSucceeds ==
    (pc \in {"done", "failed"} /\ store = <<>> /\ storeFault = "none") =>
        outcome = "ok" /\ finalResults = <<>>

\* C12 witness: a call on the empty collection went through both channels
\* and returned.
C12_Witness ==
    /\ pc = "done" /\ store = <<>> /\ storeFault = "none"
    /\ stages = <<"expand", "vector", "keyword", "fuse", "diversify", "bias", "resort">>
    /\ request.user.present

\* C10: when the provider fails on every call and the store is healthy, the
\* call completes successfully, on the dictionary expansion and the local
\* fallback embedding.
C10_ProviderFailureRecovered ==
    (pc \in {"done", "failed"} /\ ~providerResponded /\ storeFault = "none") =>
        /\ outcome = "ok"
        /\ expandedQuery.path = "fallback"
        /\ expandedQuery.expanded =
              createFallbackExpansion(request.query, request.user).expanded
        /\ embedding = "fallback"

\* C10 witness: a call with a profile, every provider call failed, the
\* store answered, and passages were returned.
C10_Witness ==
    /\ pc = "done" /\ outcome = "ok"
    /\ ~providerResponded /\ storeFault = "none"
    /\ request.user.present
    /\ Len(finalResults) > 0

\* the vector-channel lookup of the call has completed, with hits or with
\* an error
VectorLookupDone == "vector" \in Range(stages) \/ storeFault = "vectorQuery"

\* keywordSearch has been entered in the call
KeywordLookupStarted ==
    scan # NoScan \/ storeFault = "keywordOpen" \/ "keyword" \in Range(stages)

\* C20: within one call the keyword lookup is started without waiting for
\* the vector lookup to complete, so that once the vector lookup has
\* completed the keyword lookup is already under way; fusion starts only
\* after both lookups have completed.
C20_ChannelsConcurrent ==
    /\ VectorLookupDone => KeywordLookupStarted
    /\ "fuse" \in Range(stages) => {"vector", "keyword"} \subseteq Range(stages)

----------------------------------------------------------------------------
\* keywordSearch under a caller that gives up: the call stands at the entry
\* of keywordSearch, the provider having failed on expansion and embedding,
\* and the caller's signal may fire while the page loop runs.
\* keywordSearch(query, filters, topK) takes no signal and reads none.

InitScan ==
    /\ RankIdle /\ ChunkIdle /\ IngestIdle /\ CallerIdle /\ DefaultConfigured /\ StartIdle
    /\ store \in Stores(MaxCorpus)
    /\ isInitialized = TRUE
    /\ pc = "keywordOpen"
    /\ request \in [query : QuerySamples, user : UserSamples, topK : 1..MaxTopK]
    /\ expansionReply = ReplyThrows
    /\ expandedQuery = expandQuery(request.query, request.user, ReplyThrows)
    /\ embedding = "fallback"
    /\ vectorHits \in VectorAnswers(store, PoolSize(request.topK))
    /\ scan = NoScan /\ keywordHits = <<>> /\ hybridResults = <<>>
    /\ diverseResults = <<>> /\ finalResults = <<>> /\ outcome = "pending"
    /\ stages = <<"expand", "vector">>
    /\ providerResponded = FALSE /\ storeFault = "none"

\* the caller's cancellation or timeout signal fires in the middle of the
\* scan: a page has been processed and the loop is to go on
Cancel ==
    /\ pc = "keywordPage"
    /\ scan.totalDocsProcessed > 0
    /\ ~aborted.fired
    /\ aborted' = [fired |-> TRUE, scan |-> scan]
    /\ UNCHANGED <<rankVars, chunkVars, retrieveVars, ingestVars, configVars, startVars>>

NextScan ==
    \/ KeywordOpenOk
    \/ KeywordOpenFails
    \/ KeywordPageOk
    \/ KeywordPageFails
    \/ KeywordCeiling
    \/ KeywordSort
    \/ FuseStage
    \/ Cancel

SpecScan == InitScan /\ [][NextScan]_vars

\* C19: when the caller's signal fires in the middle of a scan, the scan
\* stops before it fetches the next page and returns the candidates scored
\* so far, and the fusion stage takes that result as a normal keyword result.
C19_ScanHonoursCancellation ==
    aborted.fired =>
        /\ scan = aborted.scan
        /\ outcome # "error"
        /\ "keyword" \in Range(stages) =>
              keywordHits = TopK(aborted.scan.scoredResults, PoolSize(request.topK))
        /\ "fuse" \in Range(stages) =>
              hybridResults = fuseResults(vectorHits, keywordHits, hybridAlpha)

\* the stored passages that hold at least one token of the query given to
\* keywordSearch
PassagesWithQueryToken ==
    {id \in Range(store) :
        Range(tokenizeForBM25(PassageText(id))) \cap Range(QueryTerms) # {}}

\* C25: when the passages fit within one scan page, topK is at least their
\* number and the store does not fail, keywordSearch returns exactly the
\* passages that hold at least one token of the query, whichever token it
\* is, each with a score above 0.
C25_KeywordReturnsAllMatches ==
    ("keyword" \in Range(stages) /\ storeFault = "none"
         /\ Len(store) <= keywordBatchSize
         /\ PoolSize(request.topK) >= Len(store)) =>
        /\ ChannelIds(keywordHits) = PassagesWithQueryToken
        /\ \A i \in 1..Len(keywordHits) : keywordHits[i].score > 0

----------------------------------------------------------------------------
\* keywordSearch over collections of several pages, with the ceilings in
\* the proportion of the configuration (maxScanLimit = maxKeywordPages *
\* keywordBatchSize) and more than three pages, so that the early
\* termination test applies before a ceiling does.  The provider answered
\* the expansion; the vector channel returned the nearest passages.

MaxEarlyCorpus == 13

EarlyConfig ==
    [keywordBatchSize |-> keywordBatchSize,
     maxKeywordPages |-> maxKeywordPages + 1,
     maxScanLimit |-> (maxKeywordPages + 1) * keywordBatchSize]

NearestFirst(ids, nResults) ==
    [i \in 1..Min(nResults, Len(ids)) |->
        Hit(ids[i], ScoreDen - (CHOOSE d \in DistanceSamples : \A e \in DistanceSamples : d <= e),
            "vector")]

InitEarly ==
    /\ RankIdle /\ ChunkIdle /\ IngestIdle /\ CallerIdle
    /\ config = EarlyConfig /\ StartIdle
    /\ store \in Stores(MaxEarlyCorpus)
    /\ isInitialized = TRUE
    /\ pc = "keywordOpen"
    /\ request \in [query : {q \in QuerySamples : tokenizeForBM25(LowerWords(q)) # <<>>},
                    user : UserSamples, topK : 1..MaxTopK]
    /\ expansionReply = ReplyFull(request.query)
    /\ expandedQuery = expandQuery(request.query, request.user, expansionReply)
    /\ embedding = "provider"
    /\ vectorHits = NearestFirst(store, PoolSize(request.topK))
    /\ scan = NoScan /\ keywordHits = <<>> /\ hybridResults = <<>>
    /\ diverseResults = <<>> /\ finalResults = <<>> /\ outcome = "pending"
    /\ stages = <<"expand", "vector">>
    /\ providerResponded = TRUE /\ storeFault = "none"

NextEarly ==
    \/ KeywordOpenOk
    \/ KeywordPageOk
    \/ KeywordPageFails
    \/ KeywordCeiling
    \/ KeywordSort

SpecEarly == InitEarly /\ [][NextEarly]_vars

\* the passages the scan's filter selects
Population == SelectSeq(store, LAMBDA id : MatchesFilter(id, buildTextFilter(QueryTerms)))

\* the page loop has been left before the end of the population and before
\* the page ceiling and the scan ceiling
StoppedShort ==
    /\ pc \in {"keywordSort", "fuse"}
    /\ scan.totalDocsProcessed < Len(Population)
    /\ scan.page < config.maxKeywordPages
    /\ scan.totalDocsProcessed < config.maxScanLimit

\* C27: absent store errors, the scan stops before the end of the population
\* and before its ceilings only when at least 3 * topK scored candidates
\* have been collected and at least three pages have been scanned; in every
\* other case it goes on with the next page.
C27_EarlyStopOnlyWhenEnough ==
    (StoppedShort /\ storeFault = "none") =>
        /\ Len(scan.scoredResults) >= 3 * PoolSize(request.topK)
        /\ scan.page + 1 >= 3

\* C27 witness: a scan stopped on its third page with enough candidates,
\* passages being left and no ceiling reached.
C27_Witness ==
    /\ StoppedShort /\ storeFault = "none"
    /\ scan.page = 2
    /\ Len(scan.scoredResults) = 3 * PoolSize(request.topK)
    /\ Len(Population) > scan.totalDocsProcessed + 1

----------------------------------------------------------------------------
\* initialize() and ensureCollectionExists(): a call gives way at each await
\* (heartbeat, listCollections, createCollection), so the calls of several
\* retrievals on the shared instance interleave at those points.

InitStart ==
    /\ RankIdle /\ ChunkIdle /\ RetrieveIdle /\ IngestIdle /\ CallerIdle /\ DefaultConfigured
    /\ initCalls = [c \in Callers |-> NotCalled]
    /\ chroma \in {NoCollections, [documents |-> TRUE, created |-> 0]}

StartFrame ==
    /\ UNCHANGED <<rankVars, chunkVars, ingestVars, callerVars, configVars>>
    /\ UNCHANGED <<store, pc, request, expandedQuery, expansionReply, embedding, vectorHits, scan,
                   keywordHits, hybridResults, diverseResults, finalResults, outcome,
                   stages, providerResponded, storeFault>>

\* catch (error) { throw error }: the call rejects, isInitialized is not set
Rejects(c, why) ==
    /\ initCalls' = [initCalls EXCEPT ![c].pc = "failed", ![c].error = why]
    /\ UNCHANGED <<isInitialized, chroma>>

\* if (this.isInitialized) return; otherwise up to await heartbeat()
InitializeEnter ==
    /\ StartFrame
    /\ \E c \in Callers :
          /\ initCalls[c].pc \in {"idle", "failed"}
          /\ initCalls[c].attempts < MaxInitAttempts
          /\ initCalls' = [initCalls EXCEPT ![c] =
                 [pc |-> IF isInitialized THEN "returned" ELSE "heartbeat",
                  attempts |-> initCalls[c].attempts + 1,
                  heartbeat |-> FALSE, ensured |-> FALSE, error |-> "none"]]
          /\ UNCHANGED <<isInitialized, chroma>>

\* heartbeat() resolves; ensureCollectionExists starts: await listCollections()
HeartbeatOk ==
    /\ StartFrame
    /\ \E c \in Callers :
          /\ initCalls[c].pc = "heartbeat"
          /\ initCalls' = [initCalls EXCEPT ![c].pc = "listCollections", ![c].heartbeat = TRUE]
          /\ UNCHANGED <<isInitialized, chroma>>

HeartbeatFails ==
    /\ StartFrame
    /\ \E c \in Callers : initCalls[c].pc = "heartbeat" /\ Rejects(c, "unreachable")

\* listCollections() resolves with the collection in it: ensureCollectionExists
\* returns, this.isInitialized = true
ListFindsCollection ==
    /\ StartFrame
    /\ \E c \in Callers :
          /\ initCalls[c].pc = "listCollections"
          /\ chroma.documents
          /\ initCalls' = [initCalls EXCEPT ![c].pc = "returned", ![c].ensured = TRUE]
          /\ isInitialized' = TRUE
          /\ UNCHANGED chroma

\* listCollections() resolves without it: await createCollection(...)
ListFindsNone ==
    /\ StartFrame
    /\ \E c \in Callers :
          /\ initCalls[c].pc = "listCollections"
          /\ ~chroma.documents
          /\ initCalls' = [initCalls EXCEPT ![c].pc = "createCollection"]
          /\ UNCHANGED <<isInitialized, chroma>>

ListFails ==
    /\ StartFrame
    /\ \E c \in Callers : initCalls[c].pc = "listCollections" /\ Rejects(c, "unreachable")

\* createCollection() of a name the store does not hold: the collection is
\* created, ensureCollectionExists returns, this.isInitialized = true
CreateOk ==
    /\ StartFrame
    /\ \E c \in Callers :
          /\ initCalls[c].pc = "createCollection"
          /\ ~chroma.documents
          /\ chroma' = [documents |-> TRUE, created |-> chroma.created + 1]
          /\ initCalls' = [initCalls EXCEPT ![c].pc = "returned", ![c].ensured = TRUE]
          /\ isInitialized' = TRUE

\* createCollection() of a name the store holds already: the store refuses,
\* the call rejects
CreateRefused ==
    /\ StartFrame
    /\ \E c \in Callers :
          /\ initCalls[c].pc = "createCollection"
          /\ chroma.documents
          /\ Rejects(c, "alreadyExists")

CreateFails ==
    /\ StartFrame
    /\ \E c \in Callers : initCalls[c].pc = "createCollection" /\ Rejects(c, "unreachable")

NextStart ==
    \/ InitializeEnter
    \/ HeartbeatOk
    \/ HeartbeatFails
    \/ ListFindsCollection
    \/ ListFindsNone
    \/ ListFails
    \/ CreateOk
    \/ CreateRefused
    \/ CreateFails

SpecStart == InitStart /\ [][NextStart]_vars

\* C29: when initialize() calls on the shared instance interleave, the
\* documents collection is created at most once and no call fails because
\* another call created the collection; isInitialized is true only after a
\* call's heartbeat and collection check have succeeded, and is false while
\* every call made so far has failed.
C29_InterleavedInitialize ==
    /\ chroma.created <= 1
    /\ \A c \in Callers : initCalls[c].error # "alreadyExists"
    /\ isInitialized =>
          \E c \in Callers : /\ initCalls[c].pc = "returned"
                              /\ initCalls[c].heartbeat /\ initCalls[c].ensured

----------------------------------------------------------------------------
\* addDocument: chunk, embed, upsert.  Several calls may be in flight: a call
\* gives way at each await, and the store applies one upsert at a time.
\* Retrievals read the collection between those steps.

MaxAddCalls == 3

DocumentIds == {"docA", "docB"}

\* the document texts given to addDocument
IngestTexts ==
    {<<Line(1, "text", 50)>>,
     <<Line(1, "numbered", 50)>>,
     <<Line(1, "text", 400), Line(2, "table", 400)>>}

\* `${documentId}_chunk_${chunkIndex}`
chunkId(documentId, chunkIndex) == <<documentId, chunkIndex>>

\* the vector generateEmbedding(chunk.content) returns: a value of the text
VectorOf(content) == [of |-> content]

\* chunk.content, its embedding and chunk.metadata as addDocument hands them
\* to the store
StoredPassage(documentId, chunk) ==
    [document |-> chunk.content,
     embedding |-> VectorOf(chunk.content),
     metadata |-> [chunkId |-> chunkId(documentId, chunk.chunkIndex),
                   documentId |-> documentId,
                   chunkIndex |-> chunk.chunkIndex,
                   tokenCount |-> chunk.tokenCount,
                   hasTable |-> chunk.hasTable,
                   hasFormula |-> chunk.hasFormula,
                   hasNumbers |-> chunk.hasNumbers,
                   section |-> chunk.section]]

\* the four arrays without the entries of the last chunk
UpsertCall_withoutLast(documentId, documentChunks) ==
    [documentId |-> documentId,
     ids |-> [i \in 1..(Len(documentChunks) - 1) |->
                 chunkId(documentId, documentChunks[i].chunkIndex)],
     records |-> [i \in 1..(Len(documentChunks) - 1) |->
                     StoredPassage(documentId, documentChunks[i])]]

\* the arguments of collection.upsert({ids, embeddings, documents, metadatas})
UpsertCall(documentId, documentChunks) ==
    [documentId |-> documentId,
     ids |-> [i \in 1..Len(documentChunks) |->
                 chunkId(documentId, documentChunks[i].chunkIndex)],
     records |-> [i \in 1..Len(documentChunks) |->
                     StoredPassage(documentId, documentChunks[i])]]

\* an upsert that leaves the passages already stored as they are
\* (collection.add)
upsert_keepExisting(coll, call) ==
    [id \in DOMAIN coll \cup Range(call.ids) |->
        IF id \in DOMAIN coll THEN coll[id]
        ELSE call.records[CHOOSE i \in DOMAIN call.ids : call.ids[i] = id]]

\* collection.upsert: a passage whose id is in the call is written, stored
\* or not; the others stay
upsert(coll, call) ==
    [id \in DOMAIN coll \cup Range(call.ids) |->
        IF id \in Range(call.ids)
        THEN call.records[CHOOSE i \in DOMAIN call.ids : call.ids[i] = id]
        ELSE coll[id]]

InitIngest ==
    /\ RankIdle /\ ChunkIdle /\ RetrieveIdle
    /\ IngestIdle /\ CallerIdle /\ DefaultConfigured /\ StartIdle

\* addDocument up to the upsert: initialize, chunkDocument, generateEmbedding
\* for each chunk (which never throws)
AddDocument ==
    /\ Len(adds) < MaxAddCalls
    /\ \E documentId \in DocumentIds, text \in IngestTexts :
          adds' = Append(adds,
                         [documentId |-> documentId,
                          chunks |-> chunkDocument(text, NoMetadata, CurrentCopy,
                                                   "none", FALSE).chunks,
                          pc |-> "embedded",
                          upsert |-> 0])
    /\ UNCHANGED <<collection, upserts, fetched>>
    /\ UNCHANGED <<rankVars, chunkVars, retrieveVars, callerVars, configVars, startVars>>

\* Step 3 of addDocument: getCollection and collection.upsert succeed
Upsert ==
    /\ \E c \in DOMAIN adds :
          /\ adds[c].pc = "embedded"
          /\ LET call == UpsertCall(adds[c].documentId, adds[c].chunks)
             IN /\ collection' = upsert(collection, call)
                /\ upserts' = Append(upserts, call)
          /\ adds' = [adds EXCEPT ![c].pc = "stored", ![c].upsert = Len(upserts) + 1]
    /\ UNCHANGED fetched
    /\ UNCHANGED <<rankVars, chunkVars, retrieveVars, callerVars, configVars, startVars>>

\* Step 3 of addDocument: getCollection or collection.upsert throws; the
\* call rejects with "Failed to add document"
UpsertFails ==
    /\ \E c \in DOMAIN adds :
          /\ adds[c].pc = "embedded"
          /\ adds' = [adds EXCEPT ![c].pc = "failed"]
    /\ UNCHANGED <<collection, upserts, fetched>>
    /\ UNCHANGED <<rankVars, chunkVars, retrieveVars, callerVars, configVars, startVars>>

\* a retrieval reads the collection (collection.query, collection.get)
RetrieveRead ==
    /\ fetched' = [read |-> TRUE, passages |-> collection]
    /\ UNCHANGED <<collection, upserts, adds>>
    /\ UNCHANGED <<rankVars, chunkVars, retrieveVars, callerVars, configVars, startVars>>

NextIngest ==
    \/ AddDocument
    \/ Upsert
    \/ UpsertFails
    \/ RetrieveRead

SpecIngest == InitIngest /\ [][NextIngest]_vars

\* the upserts that wrote id, in order
WritesOf(id) ==
    SelectSeq([i \in DOMAIN upserts |-> i], LAMBDA i : id \in Range(upserts[i].ids))

WrittenBy(i, id) ==
    upserts[i].records[CHOOSE k \in DOMAIN upserts[i].ids : upserts[i].ids[k] = id]

WrittenIds == UNION {Range(upserts[i].ids) : i \in DOMAIN upserts}

\* C18 as stated: once a passage id has been written, the text and metadata
\* stored under it never change, also when add_document is called again with
\* the same document id and different text.
C18_PassagesNeverChange ==
    \A id \in WrittenIds :
        /\ id \in DOMAIN collection
        /\ collection[id] = WrittenBy(WritesOf(id)[1], id)

\* C18 amended: the store holds exactly the passage ids written so far; the
\* text and metadata under an id are those of the latest add_document that
\* wrote the id, which is a call for the document the id belongs to.  Reads
\* and calls for other documents leave them as they are.
C18_LatestWriteStored ==
    /\ DOMAIN collection = WrittenIds
    /\ \A id \in WrittenIds :
          LET writes == WritesOf(id)
              last == writes[Len(writes)]
          IN /\ collection[id] = WrittenBy(last, id)
             /\ upserts[last].documentId = collection[id].metadata.documentId
             /\ id = chunkId(upserts[last].documentId, collection[id].metadata.chunkIndex)
    /\ DOMAIN fetched.passages \subseteq WrittenIds

\* C18 witness: a document was added twice with different texts, a retrieval
\* read the collection in between, and the passage holds the second text.
C18_Witness ==
    \E id \in WrittenIds :
        /\ Len(WritesOf(id)) >= 2
        /\ WrittenBy(WritesOf(id)[1], id) # WrittenBy(WritesOf(id)[2], id)
        /\ fetched.read /\ id \in DOMAIN fetched.passages
        /\ fetched.passages[id] = WrittenBy(WritesOf(id)[1], id)
        /\ collection[id] = WrittenBy(WritesOf(id)[Len(WritesOf(id))], id)
        /\ collection[id] # fetched.passages[id]

\* the passages an addDocument call has written: those of its upsert
PassagesWrittenBy(c) ==
    IF adds[c].upsert = 0 THEN {}
    ELSE {<<upserts[adds[c].upsert].ids[i], upserts[adds[c].upsert].records[i]>> :
             i \in DOMAIN upserts[adds[c].upsert].ids}

\* the chunker's complete output for the call, each id with the vector, the
\* text and the metadata of its own chunk
CompleteOutput(c) ==
    {<<chunkId(adds[c].documentId, ch.chunkIndex),
       [document |-> ch.content,
        embedding |-> VectorOf(ch.content),
        metadata |-> StoredPassage(adds[c].documentId, ch).metadata]>> :
        ch \in Range(adds[c].chunks)}

\* C30: addDocument is all-or-nothing with respect to the store: once a
\* call has returned or failed, the passages it has written are none (the
\* call failed) or the chunker's complete output, each id with the vector,
\* the text and the metadata of its own chunk; the store has applied no
\* write other than those of the returned calls.
C30_AddAllOrNothing ==
    /\ \A c \in DOMAIN adds :
          /\ adds[c].pc = "failed" => PassagesWrittenBy(c) = {}
          /\ adds[c].pc = "stored" =>
                /\ PassagesWrittenBy(c) = CompleteOutput(c)
                /\ Cardinality({w[1] : w \in PassagesWrittenBy(c)}) = Len(adds[c].chunks)
                /\ \A w \in PassagesWrittenBy(c) :
                      /\ w[2].metadata.chunkId = w[1]
                      /\ w[2].metadata.documentId = adds[c].documentId
          /\ adds[c].pc = "embedded" => PassagesWrittenBy(c) = {}
    /\ Len(upserts) = Cardinality({c \in DOMAIN adds : adds[c].pc = "stored"})
    /\ DOMAIN collection = WrittenIds

\* C30 witness: a call with several chunks has returned and another call
\* has failed.
C30_Witness ==
    \E c, d \in DOMAIN adds :
        /\ adds[c].pc = "stored" /\ Len(adds[c].chunks) >= 2
        /\ adds[d].pc = "failed" /\ Len(adds[d].chunks) >= 2
        /\ PassagesWrittenBy(c) # {}

====
